---- MODULE Spec2Model ----
(***************************************************************************)
(* Model of the HCS Terraform provider handlers:                           *)
(*   - the security-group data source (list + client-side filter, with the *)
(*     v3 -> v1 API fallback),                                             *)
(*   - the compute-instance resource (Create / Read / Delete).             *)
(*                                                                         *)
(* Strings that are only compared for equality are TLA+ strings; strings   *)
(* that are searched (descriptions, keywords) are sequences of characters. *)
(* Remote-assigned identifiers are strings; "" is the unset identifier.    *)
(***************************************************************************)
EXTENDS Integers, Sequences, FiniteSets, TLC

VARIABLES
    remoteGroups,   \* the security groups the remote holds, in listing order
    query,          \* the data source's arguments: id, name, enterprise_project_id, description
    fltOut,         \* last result of a direct call of a filter function
    dsId,           \* the data source's id (d.SetId), <<>> while unset
    dsAttrs,        \* the data source's attributes written by d.Set
    dsRet,          \* diagnostics returned by the last data-source read
    dsEnv,          \* what the remote answered during the last data-source read
    dsCalls,        \* remote calls issued by the last data-source read, in order
    turbo,          \* the file-system data source: the remote's file systems, the query, the ids read
    d,              \* the instance's schema.ResourceData: its id and attributes
    pc,             \* position of the running instance handler
    ret,            \* diagnostics returned by the instance handler, "none" while it runs
    calls,          \* remote calls issued by the running handler, in order, with their answers
    wait,           \* the state poll in progress (waitForServerTargetState)
    local,          \* local variables of the running handler
    cloud           \* the remote: the server, its interfaces and its ports

sgVars == <<remoteGroups, query, fltOut, dsId, dsAttrs, dsRet, dsEnv, dsCalls, turbo>>

instVars == <<d, pc, ret, calls, wait, local, cloud>>

vars == <<sgVars, instVars>>

----------------------------------------------------------------------------
(* Bounds and input domains *)

\* longest remote listing of security groups
MaxGroups == 2

GroupIDs == <<"sg1", "sg2", "sg3", "sg4">>

GroupNames == {"a", "b"}

\* descriptions and keywords, as character sequences
Descriptions == {<<>>, <<"y">>, <<"x", "y">>}

Keywords == {<<>>, <<"x">>, <<"y">>, <<"x", "y">>}

ProjectIDs == {"e1", "e2"}

\* a security group as the remote holds it; the v1 API omits the two timestamps
GroupAt(i) ==
    [ID : {GroupIDs[i]}, Name : GroupNames, Description : Descriptions,
     EnterpriseProjectId : ProjectIDs, CreatedAt : {"t0"}, UpdatedAt : {"t1"}]

RECURSIVE GroupListsOfLen(_)
GroupListsOfLen(n) ==
    IF n = 0 THEN {<<>>}
    ELSE {Append(l, g) : l \in GroupListsOfLen(n - 1), g \in GroupAt(n)}

GroupLists == UNION {GroupListsOfLen(n) : n \in 0..MaxGroups}

Queries ==
    [id : {"", "sg1"}, name : {"", "a"}, enterprise_project_id : {"", "e1"},
     description : Keywords]

----------------------------------------------------------------------------
(* Pure helpers *)

\* strings.Contains
Contains(s, substr) ==
    \E i \in 0..(Len(s) - Len(substr)) : SubSeq(s, i + 1, i + Len(substr)) = substr

\* the v1 API's view of a group
AsV1(g) ==
    [ID |-> g.ID, Name |-> g.Name, Description |-> g.Description,
     EnterpriseProjectId |-> g.EnterpriseProjectId]

flattenSecGroupDetailV1(entity) ==
    [id |-> entity.ID, name |-> entity.Name,
     enterprise_project_id |-> entity.EnterpriseProjectId,
     description |-> entity.Description]

flattenSecGroupDetailV3(entity) ==
    [id |-> entity.ID, name |-> entity.Name,
     enterprise_project_id |-> entity.EnterpriseProjectId,
     description |-> entity.Description,
     created_at |-> entity.CreatedAt, updated_at |-> entity.UpdatedAt]

\* result := make(.., len(copy)); ids[i] = copy[i].ID; result[i] = flatten(copy[i])
FlattenAllV1(secGroupsCopy) ==
    [result |-> [i \in 1..Len(secGroupsCopy) |-> flattenSecGroupDetailV1(secGroupsCopy[i])],
     ids |-> [i \in 1..Len(secGroupsCopy) |-> secGroupsCopy[i].ID]]

FlattenAllV3(secGroupsCopy) ==
    [result |-> [i \in 1..Len(secGroupsCopy) |-> flattenSecGroupDetailV3(secGroupsCopy[i])],
     ids |-> [i \in 1..Len(secGroupsCopy) |-> secGroupsCopy[i].ID]]

\* filterAvailableSecGroupsV1: both loops range over the argument secGroups
filterAvailableSecGroupsV1(secGroups, name, descKey) ==
    LET byName == IF name # ""
                  THEN SelectSeq(secGroups, LAMBDA g : name = g.Name)
                  ELSE secGroups
        byDesc == IF descKey # <<>>
                  THEN SelectSeq(secGroups, LAMBDA g : Contains(g.Description, descKey))
                  ELSE byName
    IN  FlattenAllV1(byDesc)

\* a description filter that compares for equality instead of searching
filterAvailableSecGroupsV3_ExactMatch(secGroups, descKey) ==
    LET byDesc == IF descKey # <<>>
                  THEN SelectSeq(secGroups, LAMBDA g : g.Description = descKey)
                  ELSE secGroups
    IN  FlattenAllV3(byDesc)

filterAvailableSecGroupsV3(secGroups, descKey) ==
    LET byDesc == IF descKey # <<>>
                  THEN SelectSeq(secGroups, LAMBDA g : Contains(g.Description, descKey))
                  ELSE secGroups
    IN  FlattenAllV3(byDesc)

----------------------------------------------------------------------------
(* Compute instance: state shared by the handlers *)

\* longest run of status fetches that fits in a handler's timeout
MaxPolls == 2

NoWait == [pending |-> {}, target |-> {}, after |-> "none", polls |-> 0]

\* a handler's local variables; d0, prev and prevCalls are history: the attributes when
\* the handler was entered, and the attributes and calls at the end of the previous Read
NoLocal == [resources |-> <<>>, powerFor |-> "none", action |-> "", i |-> 1, bds |-> <<>>,
            imageId |-> "", flavorId |-> "", vpcId |-> "", secGroups |-> {},
            sourceDestChecks |-> <<>>, networks |-> <<>>,
            old |-> <<>>, toRemove |-> {}, toAdd |-> {}, toDelete |-> {},
            run |-> "first", d0 |-> <<>>, prev |-> <<>>, prevCalls |-> <<>>,
            waitErr |-> <<>>]

\* what the remote holds: the server, its ports, its volumes, the images
NoCloud == [server |-> <<>>, ports |-> <<>>, volumes |-> <<>>, blockDevices |-> <<>>,
            images |-> <<>>, groups |-> <<>>, userID |-> ""]

\* the instance's attributes, with the schema's defaults; maps are functions, sets are sets
DefaultD ==
    [id |-> "",
     \* arguments
     stop_before_destroy |-> FALSE,
     charging_mode |-> "",
     delete_disks_on_termination |-> FALSE,
     delete_eip_on_termination |-> TRUE,
     eip_type |-> "",
     bandwidth_id |-> "",
     block_device_mapping_v2 |-> <<>>,
     metadata |-> <<>>,
     power_action |-> "",
     user_id |-> "",
     period_unit |-> "",
     period |-> 0,
     spot_maximum_price |-> "",
     spot_duration |-> 0,
     spot_duration_count |-> 0,
     admin_pass |-> "",
     private_key |-> "",
     auto_renew |-> "",
     \* arguments that Read overwrites, and computed attributes
     region |-> "",
     availability_zone |-> "",
     name |-> "",
     description |-> "",
     status |-> "",
     agency_name |-> "",
     agent_list |-> "",
     created_at |-> "",
     updated_at |-> "",
     flavor_id |-> "",
     flavor_name |-> "",
     image_id |-> "",
     image_name |-> "",
     key_pair |-> "",
     public_ip |-> "",
     network |-> <<>>,
     access_ip_v4 |-> "",
     access_ip_v6 |-> "",
     conn_info |-> <<>>,
     security_groups |-> {},
     security_group_ids |-> {},
     volume_attached |-> <<>>,
     system_disk_id |-> "",
     system_disk_size |-> 0,
     system_disk_type |-> "",
     scheduler_hints |-> <<>>,
     tags |-> <<>>]

\* no instance handler is running
InstIdle ==
    /\ d = DefaultD
    /\ pc = "idle"
    /\ ret = "none"
    /\ calls = <<>>
    /\ wait = NoWait
    /\ local = NoLocal
    /\ cloud = NoCloud

\* the handler returns diagnostics
Return(diags) ==
    /\ pc' = "done"
    /\ ret' = diags

Call(name, arg, res) == [call |-> name, arg |-> arg, res |-> res]

----------------------------------------------------------------------------
(* Security-group data source *)

None == <<>>
Some(v) == <<v>>

IdCode(id) == CHOOSE i \in 1..Len(GroupIDs) : GroupIDs[i] = id

HashWidth == 65536

\* hashcode.Strings: a checksum of the ids joined in order
RECURSIVE hashcodeStrings(_)
hashcodeStrings(ids) ==
    IF ids = <<>> THEN 0
    ELSE (hashcodeStrings(SubSeq(ids, 1, Len(ids) - 1)) * 31 + IdCode(ids[Len(ids)])) % HashWidth

\* v3groups.List: the remote filters by id, name and enterprise project
v3groupsList(groups, listOpts) ==
    SelectSeq(groups, LAMBDA g :
        /\ (listOpts.ID = "" \/ g.ID = listOpts.ID)
        /\ (listOpts.Name = "" \/ g.Name = listOpts.Name)
        /\ (listOpts.EnterpriseProjectId = "" \/ g.EnterpriseProjectId = listOpts.EnterpriseProjectId))

\* v1groups.List + ExtractSecurityGroups: the remote filters by enterprise project only
v1groupsList(groups, listOpts) ==
    LET kept == SelectSeq(groups, LAMBDA g :
            listOpts.EnterpriseProjectId = "" \/ g.EnterpriseProjectId = listOpts.EnterpriseProjectId)
    IN  [i \in 1..Len(kept) |-> AsV1(kept[i])]

\* what the environment answers to one read: client construction and list calls;
\* "unused" marks an answer the read never asks for
DsEnvs ==
    {[v3Client |-> "err", v3List |-> "unused", v1Client |-> "unused", v1List |-> "unused"],
     [v3Client |-> "ok", v3List |-> "err", v1Client |-> "unused", v1List |-> "unused"],
     [v3Client |-> "ok", v3List |-> "ok", v1Client |-> "unused", v1List |-> "unused"],
     [v3Client |-> "ok", v3List |-> "404", v1Client |-> "err", v1List |-> "unused"],
     [v3Client |-> "ok", v3List |-> "404", v1Client |-> "ok", v1List |-> "errPages"],
     [v3Client |-> "ok", v3List |-> "404", v1Client |-> "ok", v1List |-> "errExtract"],
     [v3Client |-> "ok", v3List |-> "404", v1Client |-> "ok", v1List |-> "ok"]}

NoDsEnv == [v3Client |-> "unused", v3List |-> "unused", v1Client |-> "unused", v1List |-> "unused"]

DsUntouched == [id |-> None, attrs |-> [region |-> None, security_groups |-> None]]

dataSourceNetworkingSecGroupsReadV1(groups, q, env, issued) ==
    IF env.v1Client = "err"
    THEN DsUntouched @@ [ret |-> "error creating networking v1 client", calls |-> issued]
    ELSE
    LET listOpts == [EnterpriseProjectId |-> q.enterprise_project_id]
        issued1   == Append(issued, "v1groups.List")
    IN  IF env.v1List = "errPages"
        THEN DsUntouched @@ [ret |-> "error getting security groups", calls |-> issued1]
        ELSE IF env.v1List = "errExtract"
        THEN DsUntouched @@ [ret |-> "error retrieving security groups list", calls |-> issued1]
        ELSE
        LET allSecGroups == v1groupsList(groups, listOpts)
            out == filterAvailableSecGroupsV1(allSecGroups, q.name, q.description)
        IN  [id |-> Some(hashcodeStrings(out.ids)),
             attrs |-> [region |-> Some("region"), security_groups |-> Some(out.result)],
             ret |-> "ok", calls |-> issued1]

\* the read, with the set of v3 list failures that are answered by the v1 path
DsReadFallingBackOn(groups, q, env, fallbackOn) ==
    IF env.v3Client = "err"
    THEN DsUntouched @@ [ret |-> "error creating networking v3 client", calls |-> <<>>]
    ELSE
    LET listOpts == [ID |-> q.id, Name |-> q.name,
                     EnterpriseProjectId |-> q.enterprise_project_id]
        calls1   == <<"v3groups.List">>
    IN  IF env.v3List \in fallbackOn
        THEN dataSourceNetworkingSecGroupsReadV1(groups, q, env, calls1)
        ELSE IF env.v3List # "ok"
        THEN DsUntouched @@ [ret |-> "error getting security groups list", calls |-> calls1]
        ELSE
        LET allSecGroups == v3groupsList(groups, listOpts)
            out == filterAvailableSecGroupsV3(allSecGroups, q.description)
        IN  [id |-> Some(hashcodeStrings(out.ids)),
             attrs |-> [region |-> Some("region"), security_groups |-> Some(out.result)],
             ret |-> "ok", calls |-> calls1]

\* a read that takes every v3 list failure for "API not published"
dataSourceNetworkingSecGroupsRead_AnyError(groups, q, env) ==
    DsReadFallingBackOn(groups, q, env, {"404", "err"})

\* dataSourceNetworkingSecGroupsRead: only golangsdk.ErrDefault404 falls back
dataSourceNetworkingSecGroupsRead(groups, q, env) ==
    DsReadFallingBackOn(groups, q, env, {"404"})

\* the data source is not in use
\* the file-system data source has not been read
NoTurbo == [fileSystems |-> <<>>, query |-> <<>>, ids |-> {}, read |-> FALSE]

SgIdle ==
    /\ turbo = NoTurbo
    /\ remoteGroups = <<>>
    /\ query = [id |-> "", name |-> "", enterprise_project_id |-> "", description |-> <<>>]
    /\ fltOut = [fn |-> "none"]
    /\ dsId = None
    /\ dsAttrs = DsUntouched.attrs
    /\ dsRet = "none"
    /\ dsEnv = NoDsEnv
    /\ dsCalls = <<>>

InitSG ==
    /\ remoteGroups \in GroupLists
    /\ query \in Queries
    /\ fltOut = [fn |-> "none"]
    /\ dsId = None
    /\ dsAttrs = DsUntouched.attrs
    /\ dsRet = "none"
    /\ dsEnv = NoDsEnv
    /\ dsCalls = <<>>
    /\ turbo = NoTurbo
    /\ InstIdle

\* a direct call of filterAvailableSecGroupsV1 on the listing
CallFilterV1 ==
    /\ fltOut.fn = "none" /\ dsRet = "none"
    /\ LET secGroups == [i \in 1..Len(remoteGroups) |-> AsV1(remoteGroups[i])]
       IN  fltOut' = [fn |-> "V1", in |-> secGroups,
                      out |-> filterAvailableSecGroupsV1(secGroups, query.name, query.description)]
    /\ UNCHANGED <<remoteGroups, query, dsId, dsAttrs, dsRet, dsEnv, dsCalls, turbo, instVars>>

\* a direct call of filterAvailableSecGroupsV3 on the listing
CallFilterV3 ==
    /\ fltOut.fn = "none" /\ dsRet = "none"
    /\ fltOut' = [fn |-> "V3", in |-> remoteGroups,
                  out |-> filterAvailableSecGroupsV3(remoteGroups, query.description)]
    /\ UNCHANGED <<remoteGroups, query, dsId, dsAttrs, dsRet, dsEnv, dsCalls, turbo, instVars>>

\* one run of the data source's ReadContext on a fresh ResourceData
DsRead ==
    /\ fltOut.fn = "none" /\ dsRet = "none"
    /\ \E env \in DsEnvs :
        LET r == dataSourceNetworkingSecGroupsRead(remoteGroups, query, env)
        IN  /\ dsId' = r.id
            /\ dsAttrs' = r.attrs
            /\ dsRet' = r.ret
            /\ dsEnv' = env
            /\ dsCalls' = r.calls
    /\ UNCHANGED <<remoteGroups, query, fltOut, turbo, instVars>>

NextSG == CallFilterV1 \/ CallFilterV3 \/ DsRead

SpecSG == InitSG /\ [][NextSG]_vars

----------------------------------------------------------------------------
(* Claims about the security-group data source *)

\* position of the group with the given id in a listing (ids are unique in a listing)
PosOf(list, id) == CHOOSE i \in 1..Len(list) : list[i].ID = id

\* out is exactly the groups of in that satisfy keep, flattened, in input order
IsSelection(in, out, keep(_)) ==
    /\ \A k \in 1..Len(out.result) :
        /\ \E i \in 1..Len(in) : in[i].ID = out.result[k].id
        /\ keep(in[PosOf(in, out.result[k].id)])
        /\ out.result[k].name = in[PosOf(in, out.result[k].id)].Name
        /\ out.result[k].description = in[PosOf(in, out.result[k].id)].Description
        /\ out.result[k].enterprise_project_id = in[PosOf(in, out.result[k].id)].EnterpriseProjectId
    /\ \A i \in 1..Len(in) : keep(in[i]) => \E k \in 1..Len(out.result) : out.result[k].id = in[i].ID
    /\ \A k1, k2 \in 1..Len(out.result) :
        k1 < k2 => PosOf(in, out.result[k1].id) < PosOf(in, out.result[k2].id)

\* C1: filterAvailableSecGroupsV1 called with a non-empty name and a non-empty keyword
\* returns only groups whose name equals the name and whose description contains the
\* keyword (the two filters compose as a conjunction).
C1_NameAndDescriptionCompose ==
    (fltOut.fn = "V1" /\ query.name # "" /\ query.description # <<>>) =>
        \A k \in 1..Len(fltOut.out.result) :
            /\ fltOut.out.result[k].name = query.name
            /\ Contains(fltOut.out.result[k].description, query.description)

\* C2: filterAvailableSecGroupsV3, and filterAvailableSecGroupsV1 with an empty name,
\* return for a non-empty keyword exactly the groups whose description contains it, in
\* input order, and the whole input when every filter is empty; in every call the id
\* list is as long as the group list and ids[i] is the id of result[i].
C2_DescriptionFilter ==
    fltOut.fn # "none" =>
        /\ (fltOut.fn = "V3" \/ query.name = "") =>
            /\ query.description # <<>> =>
                IsSelection(fltOut.in, fltOut.out,
                            LAMBDA g : Contains(g.Description, query.description))
            /\ query.description = <<>> =>
                /\ Len(fltOut.out.result) = Len(fltOut.in)
                /\ IsSelection(fltOut.in, fltOut.out, LAMBDA g : TRUE)
        /\ Len(fltOut.out.ids) = Len(fltOut.out.result)
        /\ \A i \in 1..Len(fltOut.out.result) : fltOut.out.ids[i] = fltOut.out.result[i].id

\* a v3 call with a keyword that keeps one group, found past the first character of its
\* description, and drops another
C2_Witness ==
    /\ fltOut.fn = "V3"
    /\ query.description = <<"y">>
    /\ Len(fltOut.in) = 2
    /\ fltOut.in[2].Description = <<"x", "y">>
    /\ fltOut.out.ids = <<"sg2">>

\* the groups of the v1 listing that match the name and the description arguments
V1Expected(groups, q) ==
    SelectSeq(v1groupsList(groups, [EnterpriseProjectId |-> q.enterprise_project_id]),
              LAMBDA g : /\ (q.name = "" \/ g.Name = q.name)
                         /\ (q.description = <<>> \/ Contains(g.Description, q.description)))

\* C3: when the v3 list call answers not-found, the v1 path runs, the v3 not-found is
\* not returned as an error, and once the v1 listing succeeds the id and security_groups
\* are those of the v1 listing filtered by name and description.
C3_FallbackFiltersByNameAndDescription ==
    dsEnv.v3List = "404" =>
        /\ dsRet # "error getting security groups list"
        /\ (dsEnv.v1Client = "ok" => dsCalls = <<"v3groups.List", "v1groups.List">>)
        /\ (dsEnv.v1Client = "ok" /\ dsEnv.v1List = "ok") =>
            /\ dsRet = "ok"
            /\ dsAttrs.security_groups =
                 Some(FlattenAllV1(V1Expected(remoteGroups, query)).result)
            /\ dsId = Some(hashcodeStrings(FlattenAllV1(V1Expected(remoteGroups, query)).ids))

\* C4: when client construction fails or the v3 list call fails with an error other
\* than not-found, the read returns an error, the v1 API is not called, and neither the
\* id nor security_groups is set.
C4_OtherErrorsAreFatal ==
    (dsEnv.v3Client = "err" \/ dsEnv.v3List = "err") =>
        /\ dsRet \notin {"none", "ok"}
        /\ \A i \in 1..Len(dsCalls) : dsCalls[i] # "v1groups.List"
        /\ dsId = None
        /\ dsAttrs.security_groups = None

\* a read whose v3 list call failed with an error other than not-found
C4_Witness ==
    /\ dsEnv.v3List = "err"
    /\ dsRet = "error getting security groups list"
    /\ dsCalls = <<"v3groups.List">>
    /\ Len(remoteGroups) > 0

----------------------------------------------------------------------------
(* State poller: waitForServerTargetState with ServerV1StateRefreshFunc *)

\* what one cloudservers.Get of the poller can answer: a status, not-found or another error
Fetches == {"ACTIVE", "SHUTOFF", "BUILD", "ERROR", "DELETED", "SOFT_DELETED", "404", "err"}

\* the fault a server in status ERROR reports
Fault == [Code |-> "500", Message |-> "No valid host was found"]

\* a refresh function for which an instance that is not found is a failed fetch
ServerV1StateRefreshFunc_NotFoundFails(fetch) ==
    IF fetch \in {"404", "err"} THEN [state |-> "", err |-> TRUE, fault |-> <<"fetch failed">>]
    ELSE IF fetch = "ERROR"
    THEN [state |-> "ERROR", err |-> TRUE,
          fault |-> <<"error code: %d, message: %s", Fault.Code, Fault.Message>>]
    ELSE [state |-> fetch, err |-> FALSE, fault |-> <<>>]

\* ServerV1StateRefreshFunc: the (state, err) pair it returns for an answer; fault is the
\* error's text
ServerV1StateRefreshFunc(fetch) ==
    IF fetch = "404" THEN [state |-> "DELETED", err |-> FALSE, fault |-> <<>>]
    ELSE IF fetch = "err" THEN [state |-> "", err |-> TRUE, fault |-> <<"fetch failed">>]
    ELSE IF fetch = "ERROR"
    THEN [state |-> "ERROR", err |-> TRUE,
          fault |-> <<"error code: %d, message: %s", Fault.Code, Fault.Message>>]
    ELSE [state |-> fetch, err |-> FALSE, fault |-> <<>>]

\* one round of WaitForStateContext over a refreshed (state, err)
WaitOutcome(w, refreshed) ==
    IF refreshed.err THEN "error"
    ELSE IF refreshed.state \in w.target THEN "reached"
    ELSE IF refreshed.state \in w.pending THEN "pending"
    ELSE "unexpected"

StartWait(pending, target, after) ==
    /\ wait' = [pending |-> pending, target |-> target, after |-> after, polls |-> 0]
    /\ pc' = "wait"

\* one fetch of the poll loop; every caller turns a failed wait into its own error, which
\* wraps the error of the wait (waitErr)
Poll ==
    /\ pc = "wait"
    /\ wait.polls < MaxPolls
    /\ \E fetch \in Fetches :
        LET refreshed == ServerV1StateRefreshFunc(fetch)
            outcome   == WaitOutcome(wait, refreshed)
        IN  /\ calls' = Append(calls, Call("cloudservers.Get", d.id, fetch))
            /\ IF outcome = "reached"
               THEN /\ pc' = wait.after
                    /\ wait' = NoWait
                    /\ UNCHANGED <<ret, local>>
               ELSE IF outcome = "pending"
               THEN /\ wait' = [wait EXCEPT !.polls = @ + 1]
                    /\ UNCHANGED <<pc, ret, local>>
               ELSE /\ Return("State waiting timeout: error waiting for instance to become target state")
                    /\ wait' = NoWait
                    /\ local' = [local EXCEPT !.waitErr =
                                    IF refreshed.err THEN refreshed.fault
                                    ELSE <<"unexpected state", refreshed.state>>]
    /\ UNCHANGED <<d, cloud, sgVars>>

\* a wait without a timeout: it keeps waiting on a status that stays pending
PollTimeout_NoTimeout ==
    /\ pc = "wait"
    /\ wait.polls = MaxPolls
    /\ UNCHANGED vars

\* the timeout elapses while the status is still pending
PollTimeout ==
    /\ pc = "wait"
    /\ wait.polls = MaxPolls
    /\ Return("State waiting timeout: timeout while waiting for state")
    /\ wait' = NoWait
    /\ local' = [local EXCEPT !.waitErr = <<"timeout while waiting for state">>]
    /\ UNCHANGED <<d, calls, cloud, sgVars>>

----------------------------------------------------------------------------
(* State poller: properties *)

\* the status the poller sees for an answer of the fetch: not-found counts as DELETED
StatusSeen(res) == IF res = "404" THEN "DELETED" ELSE res

\* C18: a step of waitForServerTargetState either fetches the status or is the timeout. The
\* wait returns success only on a fetch whose status is in the target set, and never on a
\* pending status; a fetched status ERROR makes it return an error that carries the fault's
\* code and message; a fetch failing with another error than not-found makes it return an
\* error; the timeout makes it return an error, the last status fetched being a pending
\* one; a not-found answer is treated as the status DELETED; the wait goes on only after a
\* pending status.
C18_PollerOutcomes ==
    [][pc = "wait" =>
          LET fetched   == calls' # calls
              last      == calls'[Len(calls')]
              succeeded == pc' = wait.after
              failed    == pc' = "done" /\ ret' \notin {"none", "ok"}
          IN  /\ succeeded \/ failed \/ pc' = "wait"
              /\ succeeded => /\ fetched
                              /\ StatusSeen(last.res) \in wait.target
                              /\ StatusSeen(last.res) \notin wait.pending
              /\ (fetched /\ last.res = "ERROR") =>
                     /\ failed
                     /\ local'.waitErr =
                            <<"error code: %d, message: %s", Fault.Code, Fault.Message>>
              /\ (fetched /\ last.res = "err") => failed
              /\ ~fetched => /\ failed
                             /\ calls # <<>>
                             /\ StatusSeen(calls[Len(calls)].res) \in wait.pending
                             /\ local'.waitErr = <<"timeout while waiting for state">>
              /\ (fetched /\ last.res = "404") =>
                     /\ succeeded <=> "DELETED" \in wait.target
                     /\ pc' = "wait" <=> "DELETED" \in wait.pending
              /\ pc' = "wait" => fetched /\ StatusSeen(last.res) \in wait.pending
    ]_vars

\* the wait of Delete has returned success on a not-found answer, after a pending status
C18_Witness ==
    /\ pc = "delete:setid"
    /\ Len(calls) >= 2
    /\ calls[Len(calls)] = Call("cloudservers.Get", d.id, "404")
    /\ calls[Len(calls) - 1] = Call("cloudservers.Get", d.id, "SHUTOFF")

----------------------------------------------------------------------------
(* doPowerAction *)

powerActionMap == [ON |-> "os-start", OFF |-> "os-stop", REBOOT |-> "reboot"]

\* the request doPowerAction builds for an action; ok is FALSE when the map lacks it
PowerRequest(id, action) ==
    LET forced == action \in {"FORCE-OFF", "FORCE-REBOOT"}
        type   == IF forced THEN "HARD" ELSE IF action # "ON" THEN "SOFT" ELSE ""
        key    == IF action = "FORCE-OFF" THEN "OFF"
                  ELSE IF action = "FORCE-REBOOT" THEN "REBOOT" ELSE action
    IN  IF key \in DOMAIN powerActionMap
        THEN [ok |-> TRUE, servers |-> <<id>>, type |-> type, op |-> powerActionMap[key]]
        ELSE [ok |-> FALSE, servers |-> <<id>>, type |-> type, op |-> ""]

\* where the caller goes on once doPowerAction has returned
PowerReturns(err) ==
    IF local.powerFor = "delete"
    THEN IF err
         THEN pc' = "delete:mode" /\ UNCHANGED <<ret, wait>>
         ELSE StartWait({"ACTIVE"}, {"SHUTOFF"}, "delete:mode") /\ UNCHANGED ret
    ELSE IF local.powerFor = "update"
    THEN IF err
         THEN Return("Doing power action for instance failed") /\ UNCHANGED wait
         ELSE pc' = "update:renew" /\ UNCHANGED <<ret, wait>>
    ELSE IF err
         THEN Return("Doing power action for instance failed") /\ UNCHANGED wait
         ELSE pc' = "create:sdc" /\ UNCHANGED <<ret, wait>>

\* powers.PowerAction
PowerCall ==
    /\ pc = "power:call"
    /\ LET req == PowerRequest(d.id, local.action)
       IN  IF ~req.ok
           THEN PowerReturns(TRUE) /\ UNCHANGED calls
           ELSE \E res \in {"ok", "err"} :
                /\ calls' = Append(calls, Call("powers.PowerAction", req, res))
                /\ IF res = "err"
                   THEN PowerReturns(TRUE)
                   ELSE pc' = "power:job" /\ UNCHANGED <<ret, wait>>
    /\ UNCHANGED <<d, local, cloud, sgVars>>

\* cloudservers.WaitForJobSuccess on the power job
PowerJob ==
    /\ pc = "power:job"
    /\ \E res \in {"ok", "err"} :
        /\ calls' = Append(calls, Call("cloudservers.WaitForJobSuccess", "power", res))
        /\ PowerReturns(res = "err")
    /\ UNCHANGED <<d, local, cloud, sgVars>>

----------------------------------------------------------------------------
(* resourceComputeInstanceDelete *)

shouldUnsubscribeEIP_IgnoringSharedBandwidth(dd) ==
    dd.delete_eip_on_termination /\ dd.public_ip # "" /\ dd.eip_type # ""

shouldUnsubscribeEIP(dd) ==
    LET deleteEIP == dd.delete_eip_on_termination
        eipAddr   == dd.public_ip
        eipType   == dd.eip_type
        sharebw   == dd.bandwidth_id # ""
    IN  deleteEIP /\ eipAddr # "" /\ eipType # "" /\ ~sharebw

\* calcUnsubscribeResources, given the id common.GetEipIDbyAddress answers
calcUnsubscribeResources(dd, eipID) ==
    IF shouldUnsubscribeEIP(dd) THEN <<dd.id, eipID>> ELSE <<dd.id>>

\* the elastic IP the remote holds for an address
EipIDs == [a1 |-> "eip-1"]

DeleteOpts_FlagsSwapped(dd) ==
    [Servers |-> <<dd.id>>,
     DeleteVolume |-> dd.delete_eip_on_termination,
     DeletePublicIP |-> dd.delete_disks_on_termination]

DeleteOpts(dd) ==
    [Servers |-> <<dd.id>>,
     DeleteVolume |-> dd.delete_disks_on_termination,
     DeletePublicIP |-> dd.delete_eip_on_termination]

DeleteTarget_WithShutoff == {"DELETED", "SOFT_DELETED", "SHUTOFF"}

DeleteTarget == {"DELETED", "SOFT_DELETED"}

DeletePending == {"ACTIVE", "SHUTOFF"}

\* the instances Delete runs on: an id set by Create and attributes as configured and read
DeleteDs ==
    {[DefaultD EXCEPT !.id = "i-1", !.status = "ACTIVE", !.stop_before_destroy = stop,
                      !.charging_mode = mode,
                      !.delete_disks_on_termination = disks, !.delete_eip_on_termination = eip,
                      !.public_ip = ip, !.eip_type = bw[1], !.bandwidth_id = bw[2]] :
        stop \in BOOLEAN, mode \in {"prePaid", "postPaid", "spot"}, disks \in BOOLEAN,
        eip \in BOOLEAN, ip \in {"", "a1"},
        bw \in {<<"", "">>, <<"5_bgp", "">>, <<"5_bgp", "bw-1">>}}

InitDelete ==
    /\ SgIdle
    /\ d \in DeleteDs
    /\ pc = "delete:start"
    /\ ret = "none"
    /\ calls = <<>>
    /\ wait = NoWait
    /\ local = NoLocal
    /\ cloud = NoCloud

\* client construction, then the optional forced power-off
DeleteStart ==
    /\ pc = "delete:start"
    /\ \E client \in {"ok", "err"} :
        IF client = "err"
        THEN Return("error creating compute client") /\ UNCHANGED local
        ELSE IF d.stop_before_destroy
        THEN /\ pc' = "power:call"
             /\ local' = [local EXCEPT !.powerFor = "delete", !.action = "FORCE-OFF"]
             /\ UNCHANGED ret
        ELSE pc' = "delete:mode" /\ UNCHANGED <<ret, local>>
    /\ UNCHANGED <<d, calls, wait, cloud, sgVars>>

\* prePaid: calcUnsubscribeResources, with its lookup of the elastic IP's id
DeleteCalcResources ==
    /\ pc = "delete:mode"
    /\ d.charging_mode = "prePaid"
    /\ IF shouldUnsubscribeEIP(d)
       THEN \E client \in {"ok", "err"}, res \in {"ok", "err"} :
            IF client = "err"
            THEN Return("error unsubscribe ECS server: error creating networking client")
                 /\ UNCHANGED <<calls, local>>
            ELSE /\ calls' = Append(calls, Call("common.GetEipIDbyAddress", d.public_ip,
                                               IF res = "ok" THEN EipIDs[d.public_ip] ELSE "err"))
                 /\ IF res = "err"
                    THEN Return("error unsubscribe ECS server: error fetching EIP ID")
                         /\ UNCHANGED local
                    ELSE /\ local' = [local EXCEPT !.resources =
                                        calcUnsubscribeResources(d, EipIDs[d.public_ip])]
                         /\ pc' = "delete:unsubscribe"
                         /\ UNCHANGED ret
       ELSE /\ local' = [local EXCEPT !.resources = calcUnsubscribeResources(d, "")]
            /\ pc' = "delete:unsubscribe"
            /\ UNCHANGED <<ret, calls>>
    /\ UNCHANGED <<d, wait, cloud, sgVars>>

\* prePaid: common.UnsubscribePrePaidResource
DeleteUnsubscribe ==
    /\ pc = "delete:unsubscribe"
    /\ \E res \in {"ok", "err"} :
        /\ calls' = Append(calls, Call("common.UnsubscribePrePaidResource", local.resources, res))
        /\ IF res = "err"
           THEN Return("error unsubscribe ECS server") /\ UNCHANGED wait
           ELSE StartWait(DeletePending, DeleteTarget, "delete:setid") /\ UNCHANGED ret
    /\ UNCHANGED <<d, local, cloud, sgVars>>

\* other billing modes: cloudservers.Delete
DeleteDirect ==
    /\ pc = "delete:mode"
    /\ d.charging_mode # "prePaid"
    /\ \E res \in {"ok", "err"} :
        /\ calls' = Append(calls, Call("cloudservers.Delete", DeleteOpts(d), res))
        /\ IF res = "err"
           THEN Return("error deleting server")
           ELSE pc' = "delete:job" /\ UNCHANGED ret
    /\ UNCHANGED <<d, wait, local, cloud, sgVars>>

\* other billing modes: cloudservers.WaitForJobSuccess on the delete job
DeleteJob ==
    /\ pc = "delete:job"
    /\ \E res \in {"ok", "err"} :
        /\ calls' = Append(calls, Call("cloudservers.WaitForJobSuccess", "delete", res))
        /\ IF res = "err"
           THEN Return("error waiting for the delete job") /\ UNCHANGED wait
           ELSE StartWait(DeletePending, DeleteTarget, "delete:setid") /\ UNCHANGED ret
    /\ UNCHANGED <<d, local, cloud, sgVars>>

\* d.SetId("") once the final poll has succeeded
DeleteSetId ==
    /\ pc = "delete:setid"
    /\ d' = [d EXCEPT !.id = ""]
    /\ Return("ok")
    /\ UNCHANGED <<calls, wait, local, cloud, sgVars>>

NextDelete ==
    \/ DeleteStart
    \/ PowerCall
    \/ PowerJob
    \/ Poll
    \/ PollTimeout
    \/ DeleteCalcResources
    \/ DeleteUnsubscribe
    \/ DeleteDirect
    \/ DeleteJob
    \/ DeleteSetId

SpecDelete == InitDelete /\ [][NextDelete]_vars

----------------------------------------------------------------------------
(* Claims about resourceComputeInstanceDelete *)

\* the id of the instance the handlers run on
InstanceID == "i-1"

\* positions in the trace of the calls of one remote operation
CallsOf(name) == {i \in 1..Len(calls) : calls[i].call = name}

\* C5: under prePaid billing the resources passed to unsubscribe are the instance id,
\* followed by the elastic IP's id if and only if delete_eip_on_termination is true,
\* public_ip and eip_type are non-empty and no shared bandwidth id is configured; no
\* other id is passed.
C5_UnsubscribeResources ==
    \A i \in CallsOf("common.UnsubscribePrePaidResource") :
        LET eligible == /\ d.delete_eip_on_termination = TRUE
                        /\ d.public_ip # ""
                        /\ d.eip_type # ""
                        /\ d.bandwidth_id = ""
        IN  /\ d.charging_mode = "prePaid"
            /\ calls[i].arg[1] = InstanceID
            /\ eligible => calls[i].arg = <<InstanceID, EipIDs[d.public_ip]>>
            /\ ~eligible => calls[i].arg = <<InstanceID>>

\* an unsubscribe of the instance together with its elastic IP
C5_Witness ==
    \E i \in CallsOf("common.UnsubscribePrePaidResource") :
        /\ calls[i].arg = <<InstanceID, "eip-1">>
        /\ calls[i].res = "ok"

\* the handler has reached the final poll or gone past it
PastBillingBranch ==
    \/ pc = "wait" /\ wait.after = "delete:setid"
    \/ pc = "delete:setid"
    \/ CallsOf("cloudservers.Get") # {} /\ wait.after # "delete:mode"
       /\ \E i \in CallsOf("cloudservers.Get") :
            \E j \in CallsOf("common.UnsubscribePrePaidResource")
                     \cup CallsOf("cloudservers.Delete") : j < i

\* C6: with charging_mode prePaid, Delete issues the unsubscribe call and never the
\* direct delete call; with any other charging mode it issues exactly one direct delete
\* call for the instance id, with the delete-volume and delete-public-IP flags taken from
\* delete_disks_on_termination and delete_eip_on_termination, waits for the delete job,
\* and never issues an unsubscribe.
C6_BillingBranch ==
    /\ d.charging_mode = "prePaid" =>
        /\ CallsOf("cloudservers.Delete") = {}
        /\ Cardinality(CallsOf("common.UnsubscribePrePaidResource")) <= 1
        /\ PastBillingBranch =>
             \E i \in CallsOf("common.UnsubscribePrePaidResource") : calls[i].res = "ok"
    /\ d.charging_mode # "prePaid" =>
        /\ CallsOf("common.UnsubscribePrePaidResource") = {}
        /\ CallsOf("common.GetEipIDbyAddress") = {}
        /\ Cardinality(CallsOf("cloudservers.Delete")) <= 1
        /\ \A i \in CallsOf("cloudservers.Delete") :
            /\ calls[i].arg.Servers = <<InstanceID>>
            /\ calls[i].arg.DeleteVolume = d.delete_disks_on_termination
            /\ calls[i].arg.DeletePublicIP = d.delete_eip_on_termination
        /\ PastBillingBranch =>
             \E i \in CallsOf("cloudservers.Delete") :
                /\ calls[i].res = "ok"
                /\ calls[i + 1] = Call("cloudservers.WaitForJobSuccess", "delete", "ok")

\* a finished direct delete that removes the disks and keeps the elastic IP
C6_Witness ==
    /\ pc = "done" /\ ret = "ok"
    /\ d.charging_mode = "spot"
    /\ \E i \in CallsOf("cloudservers.Delete") :
        calls[i].arg.DeleteVolume /\ ~calls[i].arg.DeletePublicIP

\* C7: Delete clears the id only after the status poll has observed DELETED or
\* SOFT_DELETED (a not-found answer counting as DELETED), in both billing branches; when
\* the unsubscribe or delete call, the job wait or the status poll fails, Delete returns
\* an error and leaves the id unchanged.
C7_IdClearedAfterConfirmedDeletion ==
    /\ d.id \in {"", InstanceID}
    /\ d.id = "" =>
        /\ pc = "done" /\ ret = "ok"
        /\ Len(calls) > 0
        /\ calls[Len(calls)].call = "cloudservers.Get"
        /\ calls[Len(calls)].res \in {"DELETED", "SOFT_DELETED", "404"}
        /\ \E i \in CallsOf("common.UnsubscribePrePaidResource") \cup CallsOf("cloudservers.Delete") :
            calls[i].res = "ok" /\ i < Len(calls)
    /\ (pc = "done" /\ ret = "ok") => d.id = ""
    /\ (pc = "done" /\ ret # "ok") => d.id = InstanceID
    /\ (\E i \in 1..Len(calls) :
            /\ calls[i].call \in {"common.UnsubscribePrePaidResource", "cloudservers.Delete",
                                  "common.GetEipIDbyAddress"}
               \/ (calls[i].call = "cloudservers.WaitForJobSuccess" /\ calls[i].arg = "delete")
            /\ calls[i].res = "err")
        => (pc = "done" /\ ret \notin {"none", "ok"} /\ d.id = InstanceID)

\* a prePaid delete confirmed by a not-found answer after a pending status
C7_Witness ==
    /\ d.id = "" /\ d.charging_mode = "prePaid"
    /\ Len(calls) >= 2
    /\ calls[Len(calls)].res = "404"
    /\ calls[Len(calls) - 1].res = "ACTIVE"


\* ---------------------------------------------------------------------------
\* Read of the compute instance (resourceComputeInstanceRead)
\* ---------------------------------------------------------------------------

normalizeChargingMode(mode) ==
    CASE mode = "1" -> "prePaid"
      [] mode = "2" -> "spot"
      [] OTHER -> "postPaid"

\* the position of the first "=" of a tag, 0 when it has none
FirstEq(tagStr) ==
    LET at == {i \in 1..Len(tagStr) : tagStr[i] = "="}
    IN  IF at = {} THEN 0 ELSE CHOOSE i \in at : \A j \in at : i <= j

\* strings.SplitN(tagStr, "=", 2)
SplitTag(tagStr) ==
    LET e == FirstEq(tagStr)
    IN  IF e = 0 THEN <<tagStr>>
        ELSE <<SubSeq(tagStr, 1, e - 1), SubSeq(tagStr, e + 1, Len(tagStr))>>

\* a map with one more entry; a key already present takes the new value
MapPut(m, k, v) == [x \in DOMAIN m \cup {k} |-> IF x = k THEN v ELSE m[x]]

RECURSIVE flattenTagsInto(_, _)
flattenTagsInto(result, tags) ==
    IF tags = <<>> THEN result
    ELSE LET tag == SplitTag(Head(tags))
         IN  flattenTagsInto(MapPut(result, tag[1], IF Len(tag) = 1 THEN <<>> ELSE tag[2]),
                             Tail(tags))

flattenTagsToMap(tags) == flattenTagsInto(<<>>, tags)

\* the addresses of the server are those of one VPC, in the order the remote lists them
RECURSIVE computePublicIPFrom(_, _)
computePublicIPFrom(publicIP, addresses) ==
    IF addresses = <<>> THEN publicIP
    ELSE IF Head(addresses).Type = "floating" THEN Head(addresses).Addr
    ELSE computePublicIPFrom(publicIP, Tail(addresses))

computePublicIP(server) == computePublicIPFrom("", server.Addresses)

needImage(bdm) ==
    \E i \in 1..Len(bdm) : bdm[i].source_type = "image" /\ bdm[i].destination_type = "local"

\* GetOk("block_device_mapping_v2") is ok for a non-empty list
BootsFromVolume(dd) == dd.block_device_mapping_v2 # <<>> /\ ~needImage(dd.block_device_mapping_v2)

\* cfg.GetRegion(d): the region of the resource, else the provider's
GetRegion(dd) == IF dd.region # "" THEN dd.region ELSE "region-1"

\* time.Format(time.RFC3339) of a time given in seconds
FormatRFC3339(t) == "rfc3339:" \o ToString(t)

\* common.CheckDeletedDiag: a not-found answer removes the resource from the state and is
\* no error; any other failure is the error
CheckDeletedDiag(dd, res, msg) ==
    IF res = "404" THEN [d |-> [dd EXCEPT !.id = ""], diags |-> "ok"]
    ELSE [d |-> dd, diags |-> msg]

IsDeletedStatus_Never(status) == FALSE

\* the status on which Read drops the resource
IsDeletedStatus(status) == status = "DELETED"

\* the attributes copied from the server as they are
ReadBasic(dd, server) ==
    [dd EXCEPT !.region = GetRegion(dd),
               !.availability_zone = server.AvailabilityZone,
               !.name = server.Name,
               !.description = server.Description,
               !.status = server.Status,
               !.agency_name = server.Metadata.AgencyName,
               !.agent_list = server.Metadata.AgentList,
               !.charging_mode = normalizeChargingMode(server.Metadata.ChargingMode),
               !.created_at = FormatRFC3339(server.Created),
               !.updated_at = FormatRFC3339(server.Updated),
               !.flavor_id = server.Flavor.ID,
               !.flavor_name = server.Flavor.Name]

\* res is the answer of the image lookup, which is made only for an instance with an image
\* that does not boot from a volume
setImageInformation(dd, images, imageID, res) ==
    IF BootsFromVolume(dd)
    THEN [dd EXCEPT !.image_id = "Attempt to boot from volume - no image supplied"]
    ELSE IF imageID # ""
    THEN [dd EXCEPT !.image_id = imageID,
                    !.image_name = IF res = "ok" THEN images[imageID].Name
                                   ELSE "Image not found"]
    ELSE dd

LooksUpImage(dd, imageID) == ~BootsFromVolume(dd) /\ imageID # ""

ReadKeyAndEip(dd, server) ==
    LET eip == computePublicIP(server)
    IN  [dd EXCEPT !.key_pair = IF server.KeyName # "" THEN server.KeyName ELSE @,
                   !.public_ip = IF eip # "" THEN eip ELSE @]

\* flattenInstanceNetworks: one interface per fixed address of the server, in the
\* server's order; the source/destination check is on while the port allows no
\* address pair
RECURSIVE flattenInstanceNetworks(_, _)
flattenInstanceNetworks(addresses, ports) ==
    IF addresses = <<>> THEN <<>>
    ELSE LET a == Head(addresses)
             rest == flattenInstanceNetworks(Tail(addresses), ports)
         IN  IF a.Type # "fixed" THEN rest
             ELSE <<[uuid |-> IF a.PortID \in DOMAIN ports THEN ports[a.PortID].NetworkID ELSE "",
                     port |-> a.PortID,
                     fixed_ip_v4 |-> a.Addr,
                     source_dest_check |-> IF a.PortID \in DOMAIN ports
                                           THEN ports[a.PortID].AllowedAddressPairs = <<>>
                                           ELSE TRUE]>> \o rest

\* getInstanceAccessAddresses: the first IPv4 address of the interfaces; the model has
\* no IPv6 address
getInstanceAccessAddresses(networks) ==
    [hostv4 |-> IF networks = <<>> THEN "" ELSE networks[1].fixed_ip_v4, hostv6 |-> ""]

preferredSSHAddress(hostv4, hostv6) ==
    IF hostv4 # "" THEN hostv4 ELSE IF hostv6 # "" THEN hostv6 ELSE ""

\* lines 1152-1194: the interfaces, the access addresses, the connection and the groups
ReadNetworkAttrs(dd, server, networks) ==
    LET host == getInstanceAccessAddresses(networks)
        hostv4 == IF server.AccessIPv4 # "" THEN server.AccessIPv4 ELSE host.hostv4
        hostv6 == IF server.AccessIPv6 # "" THEN server.AccessIPv6 ELSE host.hostv6
        ssh == preferredSSHAddress(hostv4, hostv6)
    IN  [dd EXCEPT !.network = networks,
                   !.access_ip_v4 = hostv4,
                   !.access_ip_v6 = hostv6,
                   !.conn_info = IF ssh # "" THEN [type |-> "ssh", host |-> ssh] ELSE @,
                   !.security_groups =
                       {server.SecurityGroups[i].Name : i \in 1..Len(server.SecurityGroups)},
                   !.security_group_ids =
                       {server.SecurityGroups[i].ID : i \in 1..Len(server.SecurityGroups)}]

\* one entry of volume_attached
VolumeEntry(id, volumeInfo, va) ==
    [volume_id |-> id, size |-> volumeInfo.Size, type |-> volumeInfo.VolumeType,
     boot_index |-> va.BootIndex, pci_address |-> va.PciAddress,
     kms_key_id |-> volumeInfo.Metadata.SystemCmkID]

ReadSystemDisk(dd, id, volumeInfo, va) ==
    IF va.BootIndex = 0
    THEN [dd EXCEPT !.system_disk_id = id,
                    !.system_disk_size = volumeInfo.Size,
                    !.system_disk_type = volumeInfo.VolumeType]
    ELSE dd

volumeAttached_Appending(dd, bds) == dd.volume_attached \o bds

\* the list written to volume_attached: an entry per attached volume
volumeAttached(dd, bds) == bds

schedulerHints(group) == [i \in 1..Len(group) |-> [group |-> group[i]]]

\* lines 1229-1245
ReadTail(dd, server, bds) ==
    [dd EXCEPT !.volume_attached = IF Len(server.VolumeAttached) > 0
                                   THEN volumeAttached(dd, bds) ELSE @,
               !.scheduler_hints = IF Len(server.OsSchedulerHints.Group) > 0
                                   THEN schedulerHints(server.OsSchedulerHints.Group) ELSE @,
               !.tags = flattenTagsToMap(server.Tags)]

\* ----- the remote states and the prior attributes Read is run on

\* the ids the remote gives the ports of a server, by interface
PortIDs == <<"p1", "p2", "p3", "p4", "p5">>

FixedAddress == [Type |-> "fixed", Addr |-> "192.168.0.5", PortID |-> "p1"]

FloatingAddress == [Type |-> "floating", Addr |-> "a1", PortID |-> "p1"]

\* the image, the charging mode and the tags the remote reports
ServerProfiles ==
    {[image |-> "", mode |-> "", tags |-> <<>>],
     [image |-> "img1", mode |-> "1", tags |-> << <<"k", "=", "v">>, <<"f">> >>],
     [image |-> "img1", mode |-> "2", tags |-> << <<"k", "=", "v", "=", "w">>, <<"k", "=">> >>]}

ServerOf(status, keyName, addresses, volumes, group, profile) ==
    [Status |-> status,
     Name |-> "vm",
     Description |-> "",
     AvailabilityZone |-> "az1",
     Metadata |-> [AgencyName |-> "", AgentList |-> "", ChargingMode |-> profile.mode],
     Created |-> 1,
     Updated |-> 2,
     Flavor |-> [ID |-> "f1", Name |-> "s1.small"],
     Image |-> [ID |-> profile.image],
     KeyName |-> keyName,
     Addresses |-> addresses,
     AccessIPv4 |-> "",
     AccessIPv6 |-> "",
     SecurityGroups |-> <<[Name |-> "default", ID |-> "sg1"]>>,
     VolumeAttached |-> volumes,
     OsSchedulerHints |-> [Group |-> group],
     Tags |-> profile.tags]

Servers ==
    {ServerOf(status, keyName, addresses, volumes, group, profile) :
        status \in {"ACTIVE", "SHUTOFF", "DELETED", "SOFT_DELETED"},
        keyName \in {"", "kp1"},
        addresses \in {<<FixedAddress>>, <<FixedAddress, FloatingAddress>>},
        volumes \in {<<>>, <<[ID |-> "v1"]>>, <<[ID |-> "v2"], [ID |-> "v1"]>>},
        group \in {<<>>, <<"g1">>},
        profile \in ServerProfiles}

CloudOf(server) ==
    [server |-> server,
     ports |-> [p1 |-> [NetworkID |-> "n1", AllowedAddressPairs |-> <<>>]],
     volumes |-> [v1 |-> [Size |-> 40, VolumeType |-> "SSD", Metadata |-> [SystemCmkID |-> ""]],
                  v2 |-> [Size |-> 100, VolumeType |-> "SAS", Metadata |-> [SystemCmkID |-> "kms1"]]],
     blockDevices |-> [v1 |-> [BootIndex |-> 0, PciAddress |-> "0000:02:01.0"],
                       v2 |-> [BootIndex |-> 1, PciAddress |-> "0000:02:02.0"]],
     images |-> [img1 |-> [Name |-> "ubuntu"]],
     groups |-> <<[Name |-> "default", ID |-> "sg1"]>>,
     userID |-> ""]

BlockDeviceMappings ==
    {<<>>,
     <<[source_type |-> "volume", destination_type |-> "volume", uuid |-> "v1",
        volume_size |-> 0]>>,
     <<[source_type |-> "image", destination_type |-> "local", uuid |-> "img1",
        volume_size |-> 0]>>}

\* the attributes left by an earlier Read of another remote state
StaleD ==
    [DefaultD EXCEPT !.id = "i-1",
                     !.name = "vm0",
                     !.status = "ACTIVE",
                     !.charging_mode = "postPaid",
                     !.image_id = "img0",
                     !.image_name = "centos",
                     !.key_pair = "kp0",
                     !.public_ip = "a0",
                     !.volume_attached = <<[volume_id |-> "v0", size |-> 20, type |-> "SAS",
                                            boot_index |-> 0, pci_address |-> "",
                                            kms_key_id |-> ""]>>,
                     !.system_disk_id = "v0",
                     !.system_disk_size = 20,
                     !.system_disk_type = "SAS",
                     !.scheduler_hints = <<[group |-> "g0"]>>]

ReadDs ==
    {[dd EXCEPT !.block_device_mapping_v2 = bdm] :
        dd \in {[DefaultD EXCEPT !.id = "i-1"], StaleD}, bdm \in BlockDeviceMappings}

InitRead ==
    /\ SgIdle
    /\ d \in ReadDs
    /\ pc = "read:get"
    /\ ret = "none"
    /\ calls = <<>>
    /\ wait = NoWait
    /\ local = [NoLocal EXCEPT !.d0 = <<d>>]
    /\ cloud \in {CloudOf(server) : server \in Servers}

\* lines 1094-1132: the clients, the server and the attributes copied from it
ReadGet ==
    /\ pc = "read:get"
    /\ \E client \in {"ok", "err"} :
        IF client = "err"
        THEN Return("error creating client") /\ UNCHANGED <<d, calls, local>>
        ELSE \E res \in {"ok", "404", "err"} :
            /\ calls' = Append(calls, Call("cloudservers.Get", d.id, res))
            /\ IF res # "ok"
               THEN LET out == CheckDeletedDiag(d, res, "error retrieving compute instance")
                    IN  d' = out.d /\ Return(out.diags) /\ UNCHANGED local
               ELSE IF IsDeletedStatus(cloud.server.Status)
               THEN d' = [d EXCEPT !.id = ""] /\ Return("ok") /\ UNCHANGED local
               ELSE /\ d' = ReadBasic(d, cloud.server)
                    /\ pc' = "read:image"
                    /\ UNCHANGED <<ret, local>>
    /\ UNCHANGED <<sgVars, wait, cloud>>

\* lines 1135-1144: the image, the key pair and the public address
ReadImage ==
    /\ pc = "read:image"
    /\ LET imageID == cloud.server.Image.ID
       IN  IF LooksUpImage(d, imageID)
           THEN \E res \in {"ok", "err"} :
                   /\ calls' = Append(calls, Call("cloudimages.List", imageID, res))
                   /\ d' = ReadKeyAndEip(setImageInformation(d, cloud.images, imageID, res),
                                         cloud.server)
           ELSE /\ d' = ReadKeyAndEip(setImageInformation(d, cloud.images, imageID, "ok"),
                                      cloud.server)
                /\ UNCHANGED calls
    /\ pc' = "read:networks"
    /\ UNCHANGED <<sgVars, ret, wait, local, cloud>>

\* lines 1147-1194
ReadNetworks ==
    /\ pc = "read:networks"
    /\ \E res \in {"ok", "err"} :
        /\ calls' = Append(calls, Call("flattenInstanceNetworks", d.id, res))
        /\ IF res = "err"
           THEN Return("error creating networking client") /\ UNCHANGED <<d, local>>
           ELSE /\ d' = ReadNetworkAttrs(d, cloud.server,
                            flattenInstanceNetworks(cloud.server.Addresses, cloud.ports))
                /\ local' = [local EXCEPT !.i = 1, !.bds = <<>>]
                /\ pc' = "read:volumes"
                /\ UNCHANGED ret
    /\ UNCHANGED <<sgVars, wait, cloud>>

\* lines 1199-1228: one turn of the loop over the attached volumes
ReadVolume ==
    /\ pc = "read:volumes"
    /\ local.i <= Len(cloud.server.VolumeAttached)
    /\ LET b == cloud.server.VolumeAttached[local.i]
       IN  \E res1 \in {"ok", "err"} :
            IF res1 = "err"
            THEN /\ calls' = Append(calls, Call("cloudvolumes.Get", b.ID, res1))
                 /\ Return("error retrieving volume")
                 /\ UNCHANGED <<d, local>>
            ELSE \E res2 \in {"ok", "err"} :
                 /\ calls' = calls \o <<Call("cloudvolumes.Get", b.ID, res1),
                                        Call("block_devices.Get", b.ID, res2)>>
                 /\ IF res2 = "err"
                    THEN Return("error retrieving block device") /\ UNCHANGED <<d, local>>
                    ELSE LET volumeInfo == cloud.volumes[b.ID]
                             va == cloud.blockDevices[b.ID]
                         IN  /\ d' = ReadSystemDisk(d, b.ID, volumeInfo, va)
                             /\ local' = [local EXCEPT
                                            !.i = @ + 1,
                                            !.bds = Append(@, VolumeEntry(b.ID, volumeInfo, va))]
                             /\ UNCHANGED <<pc, ret>>
    /\ UNCHANGED <<sgVars, wait, cloud>>

\* lines 1229-1247
ReadFinish ==
    /\ pc = "read:volumes"
    /\ local.i > Len(cloud.server.VolumeAttached)
    /\ d' = ReadTail(d, cloud.server, local.bds)
    /\ Return("ok")
    /\ UNCHANGED <<sgVars, calls, wait, local, cloud>>

\* the framework refreshes the resource once more; nothing changed at the remote or in
\* the configuration
ReadAgain ==
    /\ pc = "done"
    /\ ret = "ok"
    /\ d.id # ""
    /\ local.run = "first"
    /\ local' = [NoLocal EXCEPT !.run = "second", !.d0 = <<d>>, !.prev = <<d>>,
                                !.prevCalls = calls]
    /\ calls' = <<>>
    /\ pc' = "read:get"
    /\ ret' = "none"
    /\ UNCHANGED <<sgVars, d, wait, cloud>>

NextRead ==
    \/ ReadGet
    \/ ReadImage
    \/ ReadNetworks
    \/ ReadVolume
    \/ ReadFinish
    \/ ReadAgain

SpecRead == InitRead /\ [][NextRead]_vars

\* C20: Delete with stop_before_destroy issues the forced power-off (os-stop, type HARD)
\* as its first remote call, and issues the unsubscribe or delete call only after a fetch
\* has shown the instance in SHUTOFF; Delete without stop_before_destroy issues no power
\* action.
C20_StopBeforeDestroy ==
    /\ d.stop_before_destroy =>
           /\ calls # <<>> =>
                  /\ calls[1].call = "powers.PowerAction"
                  /\ calls[1].arg.op = "os-stop"
                  /\ calls[1].arg.type = "HARD"
           /\ \A i \in CallsOf("common.UnsubscribePrePaidResource") \cup CallsOf("cloudservers.Delete") :
                  \E j \in 1..(i - 1) :
                      calls[j].call = "cloudservers.Get" /\ calls[j].res = "SHUTOFF"
    /\ ~d.stop_before_destroy => CallsOf("powers.PowerAction") = {}


----------------------------------------------------------------------------
(* Read: properties *)

\* the get call of the running Read was answered, and the answer says the instance is gone
ReportedDeleted ==
    /\ calls # <<>>
    /\ calls[1].call = "cloudservers.Get"
    /\ \/ calls[1].res = "404"
       \/ calls[1].res = "ok" /\ cloud.server.Status = "DELETED"

\* C8: a Read that finds the instance deleted (the get call answers not-found, or the
\* server's status is DELETED) has returned without error, with the id empty, every other
\* attribute as it was when Read was entered, and the get call its only remote call.
C8_ReadOfDeletedInstance ==
    ReportedDeleted =>
        /\ pc = "done"
        /\ ret = "ok"
        /\ d = [local.d0[1] EXCEPT !.id = ""]
        /\ Len(calls) = 1

C8_Witness ==
    /\ ReportedDeleted
    /\ calls[1].res = "ok"
    /\ pc = "done"
    /\ d.id = ""
    /\ d.key_pair = "kp0"
    /\ cloud.server.KeyName = "kp1"
    /\ cloud.server.VolumeAttached # <<>>

\* C9: when a second Read follows a first one with the remote state and the configuration
\* unchanged, and the remote answers it as it answered the first, the id and every
\* attribute after the second Read equal those after the first.
C9_ReadIsIdempotent ==
    (local.run = "second" /\ pc = "done" /\ calls = local.prevCalls) => d = local.prev[1]

C9_Witness ==
    /\ local.run = "second"
    /\ pc = "done"
    /\ ret = "ok"
    /\ calls = local.prevCalls
    /\ d = local.prev[1]
    /\ Len(d.volume_attached) = 2
    /\ d.scheduler_hints = <<[group |-> "g0"]>>
    /\ d.image_name = "ubuntu"

\* the key pair, the public address, the attached volumes and the scheduler hints as the
\* remote instance holds them
RemoteKeyAndDisks ==
    LET server == cloud.server
        attached == server.VolumeAttached
        boot == {i \in 1..Len(attached) : cloud.blockDevices[attached[i].ID].BootIndex = 0}
    IN  [key_pair |-> server.KeyName,
         public_ip |-> computePublicIP(server),
         volume_ids |-> [i \in 1..Len(attached) |-> attached[i].ID],
         system_disk_ids |-> IF boot = {} THEN {""} ELSE {attached[i].ID : i \in boot},
         scheduler_hints |-> [i \in 1..Len(server.OsSchedulerHints.Group) |->
                                  [group |-> server.OsSchedulerHints.Group[i]]]]

\* C28: after a successful Read that kept the resource, key_pair, public_ip,
\* volume_attached (with the system disk) and scheduler_hints are those of the remote
\* instance: where the remote has no key pair, floating address, attached volume or
\* scheduler group, the attribute is empty whatever an earlier Read wrote.
C28_ReadReflectsRemote ==
    (pc = "done" /\ ret = "ok" /\ d.id # "") =>
        /\ d.key_pair = RemoteKeyAndDisks.key_pair
        /\ d.public_ip = RemoteKeyAndDisks.public_ip
        /\ [i \in 1..Len(d.volume_attached) |-> d.volume_attached[i].volume_id]
               = RemoteKeyAndDisks.volume_ids
        /\ d.system_disk_id \in RemoteKeyAndDisks.system_disk_ids
        /\ d.scheduler_hints = RemoteKeyAndDisks.scheduler_hints

\* the same for what the remote does have
ReadReflectsWhatRemoteHas ==
    (pc = "done" /\ ret = "ok" /\ d.id # "") =>
        /\ cloud.server.KeyName # "" => d.key_pair = RemoteKeyAndDisks.key_pair
        /\ computePublicIP(cloud.server) # "" => d.public_ip = RemoteKeyAndDisks.public_ip
        /\ cloud.server.VolumeAttached # <<>> =>
               /\ [i \in 1..Len(d.volume_attached) |-> d.volume_attached[i].volume_id]
                      = RemoteKeyAndDisks.volume_ids
               /\ d.system_disk_id \in RemoteKeyAndDisks.system_disk_ids
        /\ cloud.server.OsSchedulerHints.Group # <<>> =>
               d.scheduler_hints = RemoteKeyAndDisks.scheduler_hints

\* what the final poll of Delete takes as a confirmed deletion: the get call answers
\* not-found, or the status is one of the poll's targets
DeleteAccepts(res, status) == res = "404" \/ (res = "ok" /\ status \in DeleteTarget)

\* C30: Read and Delete agree on what counts as deleted: when the get call of a Read is
\* answered with what Delete's final poll accepts as a confirmed deletion (not-found,
\* DELETED or SOFT_DELETED), the Read has cleared the id; an instance in SOFT_DELETED is
\* never kept with a non-empty id after a Read.
C30_ReadAgreesWithDelete ==
    ( /\ calls # <<>>
      /\ calls[1].call = "cloudservers.Get"
      /\ DeleteAccepts(calls[1].res, cloud.server.Status) )
    => d.id = ""

\* the same for the statuses but SOFT_DELETED
ReadDropsDeletedAndNotFound ==
    ( /\ calls # <<>>
      /\ calls[1].call = "cloudservers.Get"
      /\ DeleteAccepts(calls[1].res, cloud.server.Status)
      /\ ~(calls[1].res = "ok" /\ cloud.server.Status = "SOFT_DELETED") )
    => d.id = ""

----------------------------------------------------------------------------
(* Create of the compute instance (resourceComputeInstanceCreate) *)

\* GetOk of a map or list attribute: set and not empty
hasDeprecatedConfig(dd) == dd.metadata # <<>> \/ dd.block_device_mapping_v2 # <<>>

\* conf is the provider's configuration: the user id given there
getOpSvcUserID(dd, conf) == IF dd.user_id # "" THEN dd.user_id ELSE conf.userID

validateComputeInstanceConfig_Unchecked(dd, conf) == ""

\* the error of validateComputeInstanceConfig, "" for none
validateComputeInstanceConfig(dd, conf) ==
    IF dd.charging_mode = "prePaid" /\ dd.key_pair # "" /\ getOpSvcUserID(dd, conf) = ""
    THEN "user_id must be specified when charging_mode is set to prePaid"
    ELSE ""

\* an image resolution that looks the name up whenever there is one
imageFromConfig_NameFirst(dd) ==
    IF BootsFromVolume(dd) THEN [how |-> "id", id |-> ""]
    ELSE IF dd.image_name # "" THEN [how |-> "lookup", id |-> ""]
    ELSE IF dd.image_id # "" THEN [how |-> "id", id |-> dd.image_id]
    ELSE [how |-> "error", id |-> ""]

\* getImageIDFromConfig up to the image lookup: the id when no lookup is needed,
\* "lookup" when image_name has to be resolved, "error" when nothing tells the image
imageFromConfig(dd) ==
    IF BootsFromVolume(dd) THEN [how |-> "id", id |-> ""]
    ELSE IF dd.image_id # "" THEN [how |-> "id", id |-> dd.image_id]
    ELSE IF dd.image_name # "" THEN [how |-> "lookup", id |-> ""]
    ELSE [how |-> "error", id |-> ""]

\* getImage(client, "", name) over the images the remote lists first for that name:
\* the id of the image, or "" for an error
getImageByName(listed, name) ==
    IF listed = <<>> THEN ""
    ELSE IF listed[1].Name # name THEN ""
    ELSE listed[1].ID

getFlavorID(dd) == IF dd.flavor_id # "" THEN dd.flavor_id ELSE dd.flavor_name

\* the error checkBlockDeviceConfig finds in one block device, "" for none
checkBlockDevice(vM) ==
    IF vM.source_type # "blank" /\ vM.uuid = ""
    THEN "you must specify a uuid"
    ELSE IF vM.source_type = "image" /\ vM.destination_type = "volume" /\ vM.volume_size = 0
    THEN "you must specify a volume_size when creating a volume from an image"
    ELSE IF vM.source_type = "blank" /\ vM.destination_type = "local" /\ vM.volume_size = 0
    THEN "you must specify a volume_size when creating a blank block device"
    ELSE ""

\* the first error in the list's order
checkBlockDeviceConfig(dd) ==
    LET bdm == dd.block_device_mapping_v2
        bad == {i \in 1..Len(bdm) : checkBlockDevice(bdm[i]) # ""}
    IN  IF bad = {} THEN ""
        ELSE checkBlockDevice(bdm[CHOOSE i \in bad : \A j \in bad : i <= j])

\* the subnet getVpcID asks the remote for, "" when the first network names none
vpcNetworkID(dd) == IF Len(dd.network) > 0 THEN dd.network[1].uuid ELSE ""

\* common.ValidatePrePaidChargeInfo: prePaid needs a period unit and a period count
ValidatePrePaidChargeInfo(dd) ==
    IF dd.period_unit = "" THEN "period_unit must be specified when charging_mode is prePaid"
    ELSE IF dd.period = 0 THEN "period must be specified when charging_mode is prePaid"
    ELSE ""

\* GetOk("spot_duration_count"), else one
getSpotDurationCount(dd) == IF dd.spot_duration_count # 0 THEN dd.spot_duration_count ELSE 1

NoExtendParam ==
    [ChargingMode |-> "", PeriodType |-> "", PeriodNum |-> 0, MarketType |-> "",
     SpotPrice |-> "", InterruptionPolicy |-> "", SpotDurationHours |-> 0,
     SpotDurationCount |-> 0]

\* lines 878-898: the billing part of the create request
extendParam(dd) ==
    IF dd.charging_mode = "prePaid"
    THEN [NoExtendParam EXCEPT !.ChargingMode = "prePaid", !.PeriodType = dd.period_unit,
                               !.PeriodNum = dd.period]
    ELSE IF dd.charging_mode = "spot"
    THEN IF dd.spot_duration # 0
         THEN [NoExtendParam EXCEPT !.MarketType = "spot",
                                    !.SpotPrice = dd.spot_maximum_price,
                                    !.InterruptionPolicy = "immediate",
                                    !.SpotDurationHours = dd.spot_duration,
                                    !.SpotDurationCount = getSpotDurationCount(dd)]
         ELSE [NoExtendParam EXCEPT !.MarketType = "spot",
                                    !.SpotPrice = dd.spot_maximum_price]
    ELSE NoExtendParam

buildInstanceNicsRequest(dd) == [i \in 1..Len(dd.network) |-> [SubnetId |-> dd.network[i].uuid]]

\* lines 858-926: the request of the ECS create call
createOpts(dd, imageId, flavorId, vpcId, secGroups) ==
    [Name |-> dd.name, ImageRef |-> imageId, FlavorRef |-> flavorId, KeyName |-> dd.key_pair,
     VpcId |-> vpcId, SecurityGroups |-> secGroups, Nics |-> buildInstanceNicsRequest(dd),
     ExtendParam |-> extendParam(dd)]

\* resourceInstanceSecGroupIdsV1 over the listing of the remote: the ids of the groups
\* named, each the first of its name in the listing; ok is FALSE when a name is not listed
secGroupIdsByName(names, listing) ==
    LET firstOf(n) == {i \in 1..Len(listing) :
                          listing[i].Name = n /\ \A j \in 1..(i - 1) : listing[j].Name # n}
        found == {n \in names : firstOf(n) # {}}
    IN  [ok |-> found = names,
         ids |-> {listing[CHOOSE i \in firstOf(n) : TRUE].ID : n \in found}]

\* lines 794-815: the clients and the validation of the configuration
CreateStart ==
    /\ pc = "create:start"
    /\ \E client \in {"ok", "err"} :
        IF client = "err"
        THEN Return("error creating client")
        ELSE LET err == validateComputeInstanceConfig(d, cloud)
             IN  IF err # "" THEN Return(err)
                 ELSE pc' = "create:image" /\ UNCHANGED ret
    /\ UNCHANGED <<sgVars, d, calls, wait, local, cloud>>

\* lines 821-838: what the remote call is made with once the image, the flavor and the
\* block devices are settled, and the choice of the create path
CreateResolved(imageId) ==
    LET flavorId == getFlavorID(d)
        bdErr == checkBlockDeviceConfig(d)
    IN  IF flavorId = ""
        THEN Return("missing required argument: the flavor_id must be specified")
             /\ UNCHANGED local
        ELSE IF bdErr # "" THEN Return(bdErr) /\ UNCHANGED local
        ELSE /\ local' = [local EXCEPT !.imageId = imageId, !.flavorId = flavorId]
             /\ pc' = IF hasDeprecatedConfig(d) THEN "create:legacy" ELSE "create:vpc"
             /\ UNCHANGED ret

ImageListings ==
    {<<>>, <<[ID |-> "img1", Name |-> "ubuntu"]>>, <<[ID |-> "img2", Name |-> "ubuntu-2"]>>}

\* lines 821-838: getImageIDFromConfig, getFlavorID, checkBlockDeviceConfig
CreateImage ==
    /\ pc = "create:image"
    /\ LET image == imageFromConfig(d)
       IN  CASE image.how = "id" -> CreateResolved(image.id) /\ UNCHANGED calls
             [] image.how = "error" ->
                    /\ Return("neither a boot device, image ID, or image name were able to be determined")
                    /\ UNCHANGED <<calls, local>>
             [] image.how = "lookup" ->
                    \E res \in {"ok", "err"} :
                        /\ calls' = Append(calls, Call("cloudimages.List", d.image_name, res))
                        /\ IF res = "err"
                           THEN Return("unable to query images") /\ UNCHANGED local
                           ELSE \E listed \in ImageListings :
                                LET id == getImageByName(listed, d.image_name)
                                IN  IF id = ""
                                    THEN Return("unable to find images") /\ UNCHANGED local
                                    ELSE CreateResolved(id)
    /\ UNCHANGED <<sgVars, d, wait, cloud>>

\* lines 839-851: the clients of the ECS path and getVpcID
CreateVpc ==
    /\ pc = "create:vpc"
    /\ \E client \in {"ok", "err"} :
        IF client = "err"
        THEN Return("error creating client") /\ UNCHANGED <<calls, local>>
        ELSE IF vpcNetworkID(d) = ""
        THEN Return("network ID should not be empty") /\ UNCHANGED <<calls, local>>
        ELSE \E res \in {"ok", "err"} :
            /\ calls' = Append(calls, Call("subnets.Get", vpcNetworkID(d), res))
            /\ IF res = "err"
               THEN Return("error retrieving subnets") /\ UNCHANGED local
               ELSE /\ local' = [local EXCEPT !.vpcId = "vpc1"]
                    /\ pc' = "create:secgroups"
                    /\ UNCHANGED ret
    /\ UNCHANGED <<sgVars, d, wait, cloud>>

\* lines 853-856: resourceInstanceSecGroupIdsV1
CreateSecGroups ==
    /\ pc = "create:secgroups"
    /\ IF d.security_group_ids # {}
       THEN /\ local' = [local EXCEPT !.secGroups = d.security_group_ids]
            /\ pc' = "create:call"
            /\ UNCHANGED <<calls, ret>>
       ELSE \E res \in {"ok", "err"} :
            /\ calls' = Append(calls, Call("groups.List", "all_granted_eps", res))
            /\ IF res = "err"
               THEN Return("error listing security groups") /\ UNCHANGED local
               ELSE LET found == secGroupIdsByName(d.security_groups, cloud.groups)
                    IN  IF ~found.ok
                        THEN Return("the list contains invalid security groups")
                             /\ UNCHANGED local
                        ELSE /\ local' = [local EXCEPT !.secGroups = found.ids]
                             /\ pc' = "create:call"
                             /\ UNCHANGED ret
    /\ UNCHANGED <<sgVars, d, wait, cloud>>

\* the interfaces of a new server: one fixed address and one port per requested network
NewAddresses(n) == [i \in 1..n |-> [Type |-> "fixed", Addr |-> "192.168.0.5", PortID |-> PortIDs[i]]]

\* the ports behind a list of addresses, none of them allowing an address pair yet
PortsOf(addresses) ==
    [p \in {addresses[i].PortID : i \in 1..Len(addresses)} \ {""} |->
        [NetworkID |-> "n1", AllowedAddressPairs |-> <<>>]]

\* the remote once it has accepted the create request
Created(cl, dd) ==
    [cl EXCEPT !.server = ServerOf("ACTIVE", dd.key_pair, NewAddresses(Len(dd.network)),
                                   <<[ID |-> "v1"]>>, <<>>,
                                   [image |-> local.imageId,
                                    mode |-> IF dd.charging_mode = "prePaid" THEN "1"
                                             ELSE IF dd.charging_mode = "spot" THEN "2" ELSE "",
                                    tags |-> <<>>]),
               !.ports = PortsOf(NewAddresses(Len(dd.network)))]

\* lines 858-949: the request, the prePaid validation and the create call
CreateCall ==
    /\ pc = "create:call"
    /\ LET opts == createOpts(d, local.imageId, local.flavorId, local.vpcId, local.secGroups)
           prePaid == d.charging_mode = "prePaid"
           name == IF prePaid THEN "cloudservers.CreatePrePaid" ELSE "cloudservers.Create"
       IN  IF prePaid /\ ValidatePrePaidChargeInfo(d) # ""
           THEN Return(ValidatePrePaidChargeInfo(d)) /\ UNCHANGED <<calls, cloud>>
           ELSE \E res \in {"ok", "err"} :
               /\ calls' = Append(calls, Call(name, opts, res))
               /\ IF res = "err"
                  THEN Return("error creating server") /\ UNCHANGED cloud
                  ELSE /\ cloud' = Created(cloud, d)
                       /\ pc' = IF prePaid THEN "create:order" ELSE "create:job"
                       /\ UNCHANGED ret
    /\ UNCHANGED <<sgVars, d, wait, local>>

\* line 953: cloudservers.WaitForJobSuccess
CreateJob ==
    /\ pc = "create:job"
    /\ \E res \in {"ok", "err"} :
        /\ calls' = Append(calls, Call("cloudservers.WaitForJobSuccess", "create", res))
        /\ IF res = "err" THEN Return("error waiting for the create job")
           ELSE pc' = "create:entity" /\ UNCHANGED ret
    /\ UNCHANGED <<sgVars, d, wait, local, cloud>>

\* lines 956-960: cloudservers.GetJobEntity and SetId
CreateEntity ==
    /\ pc = "create:entity"
    /\ \E res \in {"ok", "err"} :
        /\ calls' = Append(calls, Call("cloudservers.GetJobEntity", "server_id", res))
        /\ IF res = "err" THEN Return("error getting the job entity") /\ UNCHANGED d
           ELSE d' = [d EXCEPT !.id = InstanceID] /\ pc' = "create:power" /\ UNCHANGED ret
    /\ UNCHANGED <<sgVars, wait, local, cloud>>

\* lines 934-941: the billing client and common.WaitOrderComplete
CreateOrder ==
    /\ pc = "create:order"
    /\ \E client \in {"ok", "err"} :
        IF client = "err"
        THEN Return("error creating BSS v2 client") /\ UNCHANGED calls
        ELSE \E res \in {"ok", "err"} :
            /\ calls' = Append(calls, Call("common.WaitOrderComplete", "order", res))
            /\ IF res = "err" THEN Return("error waiting for the order")
               ELSE pc' = "create:resource" /\ UNCHANGED ret
    /\ UNCHANGED <<sgVars, d, wait, local, cloud>>

\* lines 942-946: common.WaitOrderResourceComplete and SetId
CreateOrderResource ==
    /\ pc = "create:resource"
    /\ \E res \in {"ok", "err"} :
        /\ calls' = Append(calls, Call("common.WaitOrderResourceComplete", "order", res))
        /\ IF res = "err" THEN Return("error waiting for the resource of the order") /\ UNCHANGED d
           ELSE d' = [d EXCEPT !.id = InstanceID] /\ pc' = "create:power" /\ UNCHANGED ret
    /\ UNCHANGED <<sgVars, wait, local, cloud>>

\* the error resourceInstanceBlockDevicesV2 finds in the block devices, "" for none
resourceInstanceBlockDevicesV2(bds) ==
    IF \E i \in 1..Len(bds) : bds[i].source_type \notin {"blank", "image", "snapshot", "volume"}
    THEN "unknown block device source type"
    ELSE IF \E i \in 1..Len(bds) : bds[i].destination_type \notin {"local", "volume"}
    THEN "unknown block device destination type"
    ELSE ""

\* lines 965-1037: the OpenStack path; the id is stored as soon as the create call answers
CreateLegacy ==
    /\ pc = "create:legacy"
    /\ \E nets \in {"ok", "err"} :
        IF nets = "err"
        THEN Return("error expanding the networks") /\ UNCHANGED <<d, calls, wait, cloud>>
        ELSE IF resourceInstanceBlockDevicesV2(d.block_device_mapping_v2) # ""
        THEN /\ Return(resourceInstanceBlockDevicesV2(d.block_device_mapping_v2))
             /\ UNCHANGED <<d, calls, wait, cloud>>
        ELSE \E res \in {"ok", "err"} :
            /\ calls' = Append(calls, Call("servers.Create",
                                           [Name |-> d.name, ImageRef |-> local.imageId,
                                            FlavorRef |-> local.flavorId], res))
            /\ IF res = "err"
               THEN Return("error creating server") /\ UNCHANGED <<d, wait, cloud>>
               ELSE /\ d' = [d EXCEPT !.id = InstanceID]
                    /\ cloud' = Created(cloud, d)
                    /\ StartWait({"BUILD"}, {"ACTIVE"}, "create:power")
                    /\ UNCHANGED ret
    /\ UNCHANGED <<sgVars, local>>

\* a Create that does whatever power action is configured
CreatePower_AnyAction ==
    /\ pc = "create:power"
    /\ IF d.power_action # ""
       THEN /\ local' = [local EXCEPT !.powerFor = "create", !.action = d.power_action]
            /\ pc' = "power:call"
       ELSE /\ pc' = "create:sdc"
            /\ UNCHANGED local
    /\ UNCHANGED <<sgVars, d, ret, calls, wait, cloud>>

\* lines 1041-1050: the server is to be created shut down
CreatePower ==
    /\ pc = "create:power"
    /\ IF d.power_action \in {"OFF", "FORCE-OFF"}
       THEN /\ local' = [local EXCEPT !.powerFor = "create", !.action = d.power_action]
            /\ pc' = "power:call"
       ELSE /\ pc' = "create:sdc"
            /\ UNCHANGED local
    /\ UNCHANGED <<sgVars, d, ret, calls, wait, cloud>>

\* lines 1053-1063: the flags of the configured networks, and whether one is false
sourceDestChecksOf(dd) == [i \in 1..Len(dd.network) |-> dd.network[i].source_dest_check]

flagOf(sourceDestChecks) == \E i \in 1..Len(sourceDestChecks) : ~sourceDestChecks[i]

\* the interfaces the remote may report for a server created with n networks: those
\* requested, in the order requested, each with its port or without one, fewer of them, or
\* one more
RECURSIVE AddressListsOfLen(_)
AddressListsOfLen(n) ==
    IF n = 0 THEN {<<>>}
    ELSE {Append(as, [Type |-> "fixed", Addr |-> "192.168.0.5", PortID |-> port]) :
              as \in AddressListsOfLen(n - 1), port \in {PortIDs[n], ""}}

ReportedAddresses(n) == UNION {AddressListsOfLen(k) : k \in 0..(n + 1)}

\* lines 1053-1074: the flags, the server and its interfaces; what the remote holds as
\* the interfaces of the new server is settled when they are first looked at
CreateSdc ==
    /\ pc = "create:sdc"
    /\ LET sourceDestChecks == sourceDestChecksOf(d)
           get(res) == Call("cloudservers.Get", d.id, res)
           flatten(res) == Call("flattenInstanceNetworks", d.id, res)
       IN  IF ~flagOf(sourceDestChecks)
           THEN pc' = "read:get" /\ UNCHANGED <<ret, calls, local, cloud>>
           ELSE \E res \in {"ok", "err"} :
               IF res = "err"
               THEN /\ calls' = Append(calls, get(res))
                    /\ Return("error retrieving compute instance")
                    /\ UNCHANGED <<local, cloud>>
               ELSE \E addresses \in ReportedAddresses(Len(d.network)), res2 \in {"ok", "err"} :
                    /\ calls' = calls \o <<get(res), flatten(res2)>>
                    /\ cloud' = [cloud EXCEPT !.server.Addresses = addresses,
                                              !.ports = PortsOf(addresses)]
                    /\ IF res2 = "err"
                       THEN Return("error creating networking client") /\ UNCHANGED local
                       ELSE /\ local' = [local EXCEPT
                                    !.sourceDestChecks = sourceDestChecks,
                                    !.networks = flattenInstanceNetworks(addresses,
                                                                         PortsOf(addresses)),
                                    !.i = 1]
                            /\ pc' = "create:ports"
                            /\ UNCHANGED ret
    /\ UNCHANGED <<sgVars, d, wait>>

disableSourceDestCheck_EmptyPairs == <<>>

\* the allowed-address-pairs disableSourceDestCheck sends
disableSourceDestCheck == <<[IPAddress |-> "1.1.1.1/0"]>>

\* ports.Update answered ok: the remote port allows the pairs sent
PortUpdated(ports, portID, pairs) ==
    IF portID \in DOMAIN ports
    THEN [ports EXCEPT ![portID].AllowedAddressPairs = pairs]
    ELSE ports

\* lines 1076-1087: one turn of the loop over the interfaces the remote reported
CreatePort ==
    /\ pc = "create:ports"
    /\ local.i <= Len(local.networks)
    /\ LET nicPort == local.networks[local.i].port
       IN  IF nicPort = ""
           THEN /\ local' = [local EXCEPT !.i = @ + 1]
                /\ UNCHANGED <<pc, ret, calls, cloud>>
           ELSE IF local.i > Len(local.sourceDestChecks)
           THEN /\ Return("panic: index out of range")
                /\ UNCHANGED <<calls, local, cloud>>
           ELSE IF local.sourceDestChecks[local.i]
           THEN /\ local' = [local EXCEPT !.i = @ + 1]
                /\ UNCHANGED <<pc, ret, calls, cloud>>
           ELSE \E res \in {"ok", "err"} :
                /\ calls' = Append(calls, Call("ports.Update",
                                               [port |-> nicPort, pairs |-> disableSourceDestCheck],
                                               res))
                /\ IF res = "err"
                   THEN /\ Return("error disabling source dest check on port")
                        /\ UNCHANGED <<local, cloud>>
                   ELSE /\ cloud' = [cloud EXCEPT
                                        !.ports = PortUpdated(@, nicPort, disableSourceDestCheck)]
                        /\ local' = [local EXCEPT !.i = @ + 1]
                        /\ UNCHANGED <<pc, ret>>
    /\ UNCHANGED <<sgVars, d, wait>>

\* line 1090: Create ends in Read
CreateRead ==
    /\ pc = "create:ports"
    /\ local.i > Len(local.networks)
    /\ pc' = "read:get"
    /\ UNCHANGED <<sgVars, d, ret, calls, wait, local, cloud>>

\* ----- the configurations Create is run on

\* longest list of networks in a configuration
MaxNics == 2

RECURSIVE NetworkListsOfLen(_)
NetworkListsOfLen(n) ==
    IF n = 0 THEN {<<>>}
    ELSE {Append(ns, [uuid |-> "n1", port |-> "", fixed_ip_v4 |-> "", source_dest_check |-> sdc]) :
              ns \in NetworkListsOfLen(n - 1), sdc \in BOOLEAN}

NetworkLists == UNION {NetworkListsOfLen(n) : n \in 1..MaxNics}

\* the billing arguments and the deprecated ones exclude each other (novaConflicts)
CreateModes ==
    {[charging_mode |-> "", metadata |-> <<>>],
     [charging_mode |-> "postPaid", metadata |-> <<>>],
     [charging_mode |-> "prePaid", metadata |-> <<>>],
     [charging_mode |-> "", metadata |-> [k |-> "v"]]}

CreateDs ==
    {[DefaultD EXCEPT !.name = "vm",
                      !.flavor_id = "f1",
                      !.image_id = image.id,
                      !.image_name = image.name,
                      !.security_groups = {"default"},
                      !.period_unit = "month",
                      !.period = 1,
                      !.charging_mode = mode.charging_mode,
                      !.metadata = mode.metadata,
                      !.power_action = power,
                      !.network = network] :
        image \in {[id |-> "img1", name |-> ""], [id |-> "", name |-> "ubuntu"]},
        mode \in CreateModes,
        power \in {"", "OFF", "FORCE-OFF", "ON", "REBOOT"},
        network \in NetworkLists}

\* the remote before the server exists
CloudBefore == [CloudOf(<<>>) EXCEPT !.ports = <<>>]

InitCreate ==
    /\ SgIdle
    /\ d \in CreateDs
    /\ pc = "create:start"
    /\ ret = "none"
    /\ calls = <<>>
    /\ wait = NoWait
    /\ local = [NoLocal EXCEPT !.d0 = <<d>>]
    /\ cloud = CloudBefore

NextCreate ==
    \/ CreateStart
    \/ CreateImage
    \/ CreateVpc
    \/ CreateSecGroups
    \/ CreateCall
    \/ CreateJob
    \/ CreateEntity
    \/ CreateOrder
    \/ CreateOrderResource
    \/ CreateLegacy
    \/ Poll
    \/ PollTimeout
    \/ CreatePower
    \/ PowerCall
    \/ PowerJob
    \/ CreateSdc
    \/ CreatePort
    \/ CreateRead
    \/ ReadGet
    \/ ReadImage
    \/ ReadNetworks
    \/ ReadVolume
    \/ ReadFinish

SpecCreate == InitCreate /\ [][NextCreate]_vars

----------------------------------------------------------------------------
(* Create: properties *)

\* the configuration Create was entered with
Config == local.d0[1]

\* the positions in the call trace of the calls of a name that were answered ok
OkCallsAt(name) == {k \in 1..Len(calls) : calls[k].call = name /\ calls[k].res = "ok"}

PortUpdatesAt == {k \in 1..Len(calls) : calls[k].call = "ports.Update"}

\* the create path that tracks a job: no deprecated argument, and not prePaid
OnPostPaidPath == ~hasDeprecatedConfig(Config) /\ Config.charging_mode # "prePaid"

\* the remote reported the i-th interface with a port
ReportedWithPort(i) == i <= Len(local.networks) /\ local.networks[i].port # ""

----------------------------------------------------------------------------

\* C23: Create does a power action after the creation only when power_action is OFF or
\* FORCE-OFF, and then it does: for any other value no power call is issued and Create
\* never returns the power-action error; the power-off (os-stop, HARD when forced) names
\* the id the remote assigned, so it is issued after the id was set, and it comes before
\* every port update; when it fails Create returns the error with the id still set.
C23_PowerOffAfterCreate ==
    LET off == Config.power_action \in {"OFF", "FORCE-OFF"}
        failed == pc = "done" /\ ret = "Doing power action for instance failed"
    IN  /\ CallsOf("powers.PowerAction") # {} => off
        /\ failed => off /\ d.id = InstanceID
        /\ (off /\ pc \in {"create:sdc", "create:ports"}) => CallsOf("powers.PowerAction") # {}
        /\ \A k \in CallsOf("powers.PowerAction") :
              /\ calls[k].arg.servers = <<InstanceID>>
              /\ calls[k].arg.op = "os-stop"
              /\ calls[k].arg.type = IF Config.power_action = "OFF" THEN "SOFT" ELSE "HARD"
              /\ \A j \in PortUpdatesAt : k < j
              /\ d.id = InstanceID \/ pc = "done"

C23_Witness ==
    /\ pc = "done"
    /\ ret = "Doing power action for instance failed"
    /\ Config.power_action = "FORCE-OFF"
    /\ d.id = InstanceID
    /\ Len(calls) > 0
    /\ calls[Len(calls)].call = "powers.PowerAction"
    /\ calls[Len(calls)].res = "err"

\* C29: in Create the flag applied to a remote interface is the flag of the configured
\* network at the same position: whatever number of interfaces the remote reports, the
\* index at which the configured flags are read is within the configured network list
\* (Create never fails on that index), and no port of an interface whose configured flag
\* is true is updated.
C29_FlagIndexWithinConfiguredNetworks ==
    /\ ( /\ pc = "create:ports"
         /\ local.i <= Len(local.networks)
         /\ local.networks[local.i].port # "" )
       => local.i <= Len(Config.network)
    /\ ret # "panic: index out of range"
    /\ \A k \in PortUpdatesAt :
         \E i \in 1..Len(Config.network) :
            /\ ReportedWithPort(i)
            /\ local.networks[i].port = calls[k].arg.port
            /\ ~Config.network[i].source_dest_check

\* the part about the ports that are updated
OnlyUncheckedPortsUpdated ==
    \A k \in PortUpdatesAt :
        \E i \in 1..Len(Config.network) :
            /\ ReportedWithPort(i)
            /\ local.networks[i].port = calls[k].arg.port
            /\ ~Config.network[i].source_dest_check
(* Create on configurations that validation may reject *)

BlockDevice(source, destination, uuid, size) ==
    [source_type |-> source, destination_type |-> destination, uuid |-> uuid,
     volume_size |-> size]

\* block_device_mapping_v2 lists that checkBlockDeviceConfig accepts or rejects
BlockDeviceConfigs ==
    {<<BlockDevice("volume", "volume", "v1", 0)>>,
     <<BlockDevice("image", "local", "img1", 0)>>,
     <<BlockDevice("volume", "volume", "", 0)>>,
     <<BlockDevice("image", "volume", "img1", 0)>>,
     <<BlockDevice("blank", "local", "", 0)>>,
     <<BlockDevice("image", "local", "img1", 0), BlockDevice("blank", "local", "", 0)>>}

\* a configuration that passes every validation, with one network whose
\* source_dest_check is false and the server to be created shut down
ValidD ==
    [DefaultD EXCEPT !.name = "vm",
                     !.flavor_id = "f1",
                     !.image_id = "img1",
                     !.security_groups = {"default"},
                     !.power_action = "OFF",
                     !.network = <<[uuid |-> "n1", port |-> "", fixed_ip_v4 |-> "",
                                    source_dest_check |-> FALSE]>>]

Flavors == {[id |-> "f1", name |-> ""], [id |-> "", name |-> "s1.small"], [id |-> "", name |-> ""]}

Images ==
    {[id |-> "img1", name |-> ""], [id |-> "", name |-> "ubuntu"], [id |-> "", name |-> ""],
     [id |-> "img1", name |-> "ubuntu-2"]}

\* the billing arguments, and the user id of the provider, by charging mode
BillingConfigs ==
    {[d |-> [ValidD EXCEPT !.charging_mode = mode], userID |-> ""] : mode \in {"", "postPaid"}}
    \cup
    {[d |-> [ValidD EXCEPT !.charging_mode = "prePaid", !.key_pair = key,
                           !.user_id = user.id, !.period_unit = period.unit,
                           !.period = period.count],
      userID |-> user.provider] :
        key \in {"", "kp1"},
        user \in {[id |-> "", provider |-> ""], [id |-> "u1", provider |-> ""],
                  [id |-> "", provider |-> "u0"]},
        period \in {[unit |-> "month", count |-> 1], [unit |-> "", count |-> 1],
                    [unit |-> "month", count |-> 0]}}
    \cup
    {[d |-> [ValidD EXCEPT !.charging_mode = "spot", !.spot_maximum_price = price,
                           !.spot_duration = duration],
      userID |-> ""] :
        price \in {"", "0.5"}, duration \in {0, 2}}
    \cup
    {[d |-> [ValidD EXCEPT !.block_device_mapping_v2 = bdm], userID |-> ""] :
        bdm \in BlockDeviceConfigs}
    \cup
    {[d |-> [ValidD EXCEPT !.metadata = [k |-> "v"]], userID |-> ""]}

ValidationConfigs ==
    {[d |-> [c.d EXCEPT !.flavor_id = flavor.id, !.flavor_name = flavor.name,
                        !.image_id = image.id, !.image_name = image.name],
      userID |-> c.userID] :
        c \in BillingConfigs, flavor \in Flavors, image \in Images}

InitCreateValidation ==
    /\ SgIdle
    /\ \E c \in ValidationConfigs :
        /\ d = c.d
        /\ local = [NoLocal EXCEPT !.d0 = <<c.d>>]
        /\ cloud = [CloudBefore EXCEPT !.userID = c.userID]
    /\ pc = "create:start"
    /\ ret = "none"
    /\ calls = <<>>
    /\ wait = NoWait

SpecCreateValidation == InitCreateValidation /\ [][NextCreate]_vars

\* prePaid with a key pair, and no user id in the resource or in the provider
NoUserForKeyPair ==
    /\ Config.charging_mode = "prePaid"
    /\ Config.key_pair # ""
    /\ Config.user_id = ""
    /\ cloud.userID = ""

\* C11: a Create of a prePaid instance with a key pair and no user id, in the resource or
\* in the provider, never gets past the validation: no remote call is issued, the id stays
\* empty, and once the clients are built Create returns the validation error.
C11_PrePaidKeyPairNeedsUser ==
    NoUserForKeyPair =>
        /\ calls = <<>>
        /\ d.id = ""
        /\ pc \in {"create:start", "done"}
        /\ pc = "done" =>
             ret \in {"user_id must be specified when charging_mode is set to prePaid",
                      "error creating client"}

C11_Witness ==
    /\ NoUserForKeyPair
    /\ pc = "done"
    /\ ret = "user_id must be specified when charging_mode is set to prePaid"
    /\ calls = <<>>
    /\ d.id = ""

\* C12: no create request with market type spot and an empty spot price is ever sent to
\* the remote: a spot configuration without spot_maximum_price is rejected before.
C12_SpotNeedsMaximumPrice ==
    \A k \in 1..Len(calls) :
        calls[k].call \in {"cloudservers.Create", "cloudservers.CreatePrePaid"} =>
            ~ /\ calls[k].arg.ExtendParam.MarketType = "spot"
              /\ calls[k].arg.ExtendParam.SpotPrice = ""

\* the errors of the validations of the flavor, the block devices and the prePaid period
ValidationFailures ==
    {"missing required argument: the flavor_id must be specified",
     "you must specify a uuid",
     "you must specify a volume_size when creating a volume from an image",
     "you must specify a volume_size when creating a blank block device",
     "period_unit must be specified when charging_mode is prePaid",
     "period must be specified when charging_mode is prePaid"}

\* C13: when Create returns the error of a configuration validation (flavor, block
\* devices, prePaid period), no remote call has been issued.
C13_ValidationBeforeAnyRemoteCall ==
    (pc = "done" /\ ret \in ValidationFailures) => calls = <<>>

\* the errors Create returns for a failed create call or a failed wait for its completion
CreationFailures ==
    {"error creating server",
     "error waiting for the create job",
     "error getting the job entity",
     "error creating BSS v2 client",
     "error waiting for the order",
     "error waiting for the resource of the order",
     "State waiting timeout: error waiting for instance to become target state",
     "State waiting timeout: timeout while waiting for state"}

\* C14: the id is empty or the id the remote assigned, and when Create returns an error of
\* the create call or of the wait for its completion (job, order, BUILD-to-ACTIVE poll) the
\* id is empty.
C14_IdOnlyAfterCreation ==
    /\ d.id \in {"", InstanceID}
    /\ (pc = "done" /\ ret \in CreationFailures) => d.id = ""

----------------------------------------------------------------------------
(* Update of the compute instance (resourceComputeInstanceUpdate) *)

\* the state before the change; d holds the planned values
Old == local.old[1]

\* a change test that answers yes for every attribute of the schema
HasChange_Always(key) == key \in DOMAIN d

\* d.HasChange: a key the schema does not have never changed
HasChange(key) == key \in DOMAIN d /\ Old[key] # d[key]

HasChanges(keys) == \E key \in keys : HasChange(key)

\* lines 1298-1309: the metadata keys that the new configuration dropped
metadataToDelete(oldMetadata, newMetadata) == DOMAIN oldMetadata \ DOMAIN newMetadata

\* lines 1331-1337: the metadata sent for the agency
agencyMetadataOpts ==
    [k \in {key \in {"agency_name", "__support_agent_list"} :
               \/ key = "agency_name" /\ HasChange("agency_name")
               \/ key = "__support_agent_list" /\ HasChange("agent_list")} |->
        IF k = "agency_name" THEN d.agency_name ELSE d.agent_list]

\* lines 1345-1355: the old and the new set of security groups, by id when the ids changed
secGroupChange ==
    IF HasChange("security_group_ids")
    THEN [old |-> Old.security_group_ids, new |-> d.security_group_ids]
    ELSE [old |-> Old.security_groups, new |-> d.security_groups]

secgroupsToAdd == secGroupChange.new \ secGroupChange.old

\* a difference that removes every group of the old set
secgroupsToRemove_AllOld == secGroupChange.old

secgroupsToRemove == secGroupChange.old \ secGroupChange.new

\* lines 1394-1401
resizeOpts(flavorId) == [FlavorRef |-> flavorId, Mode |-> "withStopServer"]

\* lines 1438-1448; charging_mode is one of the schema's values, so EqualFold is equality
extendOpts(dd) == [NewSize |-> dd.system_disk_size, ChargeInfo |-> dd.charging_mode = "prePaid"]

\* lines 1265-1278: the clients
UpdateStart ==
    /\ pc = "update:start"
    /\ \E client \in {"ok", "err"} :
        IF client = "err" THEN Return("error creating client")
        ELSE pc' = "update:name" /\ UNCHANGED ret
    /\ UNCHANGED <<sgVars, d, calls, wait, local, cloud>>

\* UpdateName going on to the next sub-update when its call has failed
UpdateName_IgnoringError ==
    /\ pc = "update:name"
    /\ IF ~HasChanges({"name", "description"})
       THEN pc' = "update:metadata" /\ UNCHANGED <<ret, calls, cloud>>
       ELSE \E res \in {"ok", "err"} :
           /\ calls' = Append(calls, Call("cloudservers.Update",
                                          [Name |-> d.name, Description |-> d.description], res))
           /\ pc' = "update:metadata"
           /\ UNCHANGED <<ret, cloud>>
    /\ UNCHANGED <<sgVars, d, wait, local>>

\* lines 1280-1290
UpdateName ==
    /\ pc = "update:name"
    /\ IF ~HasChanges({"name", "description"})
       THEN pc' = "update:metadata" /\ UNCHANGED <<ret, calls, cloud>>
       ELSE \E res \in {"ok", "err"} :
           /\ calls' = Append(calls, Call("cloudservers.Update",
                                          [Name |-> d.name, Description |-> d.description], res))
           /\ IF res = "err" THEN Return("error updating server") /\ UNCHANGED cloud
              ELSE /\ cloud' = [cloud EXCEPT !.server.Name = d.name,
                                             !.server.Description = d.description]
                   /\ pc' = "update:metadata"
                   /\ UNCHANGED ret
    /\ UNCHANGED <<sgVars, d, wait, local>>

\* lines 1292-1309: the keys to delete
UpdateMetadata ==
    /\ pc = "update:metadata"
    /\ IF ~HasChange("metadata")
       THEN pc' = "update:agency" /\ UNCHANGED local
       ELSE /\ local' = [local EXCEPT !.toDelete = metadataToDelete(Old.metadata, d.metadata)]
            /\ pc' = "update:metadata:delete"
    /\ UNCHANGED <<sgVars, d, ret, calls, wait, cloud>>

\* lines 1311-1316: one turn of the loop over the keys to delete, in any order
UpdateMetadataDelete ==
    /\ pc = "update:metadata:delete"
    /\ \E key \in local.toDelete, res \in {"ok", "err"} :
        /\ calls' = Append(calls, Call("servers.DeleteMetadatum", key, res))
        /\ IF res = "err"
           THEN Return("error deleting metadata from server") /\ UNCHANGED local
           ELSE local' = [local EXCEPT !.toDelete = @ \ {key}] /\ UNCHANGED <<pc, ret>>
    /\ UNCHANGED <<sgVars, d, wait, cloud>>

\* lines 1319-1327
UpdateMetadataSet ==
    /\ pc = "update:metadata:delete"
    /\ local.toDelete = {}
    /\ \E res \in {"ok", "err"} :
        /\ calls' = Append(calls, Call("servers.UpdateMetadata", d.metadata, res))
        /\ IF res = "err" THEN Return("error updating server metadata")
           ELSE pc' = "update:agency" /\ UNCHANGED ret
    /\ UNCHANGED <<sgVars, d, wait, local, cloud>>

\* lines 1330-1342; the second key is written with a trailing blank in the code
UpdateAgency ==
    /\ pc = "update:agency"
    /\ IF ~HasChanges({"agency_name", "agent_list "})
       THEN pc' = "update:secgroups" /\ UNCHANGED <<ret, calls, cloud>>
       ELSE \E res \in {"ok", "err"} :
           /\ calls' = Append(calls, Call("servers.UpdateMetadata", agencyMetadataOpts, res))
           /\ IF res = "err"
              THEN /\ Return("error updating server metadata(agency_name, agent_list)")
                   /\ UNCHANGED cloud
              ELSE /\ cloud' = [cloud EXCEPT
                                  !.server.Metadata.AgencyName =
                                      IF HasChange("agency_name") THEN d.agency_name ELSE @,
                                  !.server.Metadata.AgentList =
                                      IF HasChange("agent_list") THEN d.agent_list ELSE @]
                   /\ pc' = "update:secgroups"
                   /\ UNCHANGED ret
    /\ UNCHANGED <<sgVars, d, wait, local>>

\* lines 1344-1357: the groups to remove and to add
UpdateSecGroups ==
    /\ pc = "update:secgroups"
    /\ IF ~HasChanges({"security_group_ids", "security_groups"})
       THEN pc' = "update:password" /\ UNCHANGED local
       ELSE /\ local' = [local EXCEPT !.toRemove = secgroupsToRemove, !.toAdd = secgroupsToAdd]
            /\ pc' = "update:secgroups:loop"
    /\ UNCHANGED <<sgVars, d, ret, calls, wait, cloud>>

\* lines 1359-1368: one turn of the loop over the groups to remove; the order of
\* Set.List() is not the caller's to choose
UpdateSecGroupRemove ==
    /\ pc = "update:secgroups:loop"
    /\ \E g \in local.toRemove, res \in {"ok", "EOF", "404", "err"} :
        /\ calls' = Append(calls, Call("secgroups.RemoveServer", g, res))
        /\ IF res = "err"
           THEN Return("error removing security group from server") /\ UNCHANGED local
           ELSE /\ local' = [local EXCEPT !.toRemove = @ \ {g}]
                /\ pc' = IF local.toRemove = {g} /\ local.toAdd = {}
                         THEN "update:password" ELSE pc
                /\ UNCHANGED ret
    /\ UNCHANGED <<sgVars, d, wait, cloud>>

\* lines 1370-1376: one turn of the loop over the groups to add
UpdateSecGroupAdd ==
    /\ pc = "update:secgroups:loop"
    /\ local.toRemove = {}
    /\ \E g \in local.toAdd, res \in {"ok", "EOF", "err"} :
        /\ calls' = Append(calls, Call("secgroups.AddServer", g, res))
        /\ IF res = "err"
           THEN Return("error adding security group to server") /\ UNCHANGED local
           ELSE /\ local' = [local EXCEPT !.toAdd = @ \ {g}]
                /\ pc' = IF local.toAdd = {g} THEN "update:password" ELSE pc
                /\ UNCHANGED ret
    /\ UNCHANGED <<sgVars, d, wait, cloud>>

\* lines 1379-1386
UpdatePassword ==
    /\ pc = "update:password"
    /\ IF ~HasChange("admin_pass")
       THEN pc' = "update:flavor" /\ UNCHANGED <<ret, calls>>
       ELSE \E res \in {"ok", "err"} :
           /\ calls' = Append(calls, Call("cloudservers.ChangeAdminPassword", d.admin_pass, res))
           /\ IF res = "err" THEN Return("error changing admin password of server")
              ELSE pc' = "update:flavor" /\ UNCHANGED ret
    /\ UNCHANGED <<sgVars, d, wait, local, cloud>>

\* lines 1388-1406: the resize request
UpdateFlavor ==
    /\ pc = "update:flavor"
    /\ IF ~HasChanges({"flavor_id", "flavor_name"})
       THEN pc' = "update:network" /\ UNCHANGED <<ret, calls>>
       ELSE IF getFlavorID(d) = ""
       THEN Return("missing required argument: the flavor_id must be specified")
            /\ UNCHANGED calls
       ELSE \E res \in {"ok", "err"} :
           /\ calls' = Append(calls, Call("cloudservers.Resize", resizeOpts(getFlavorID(d)), res))
           /\ IF res = "err" THEN Return("error resizing server")
              ELSE pc' = "update:flavor:job" /\ UNCHANGED ret
    /\ UNCHANGED <<sgVars, d, wait, local, cloud>>

\* lines 1408-1410: the wait on the resize job
UpdateFlavorJob ==
    /\ pc = "update:flavor:job"
    /\ \E res \in {"ok", "err"} :
        /\ calls' = Append(calls, Call("cloudservers.WaitForJobSuccess", "resize", res))
        /\ IF res = "err"
           THEN Return("error waiting for instance to be resized") /\ UNCHANGED cloud
           ELSE /\ cloud' = [cloud EXCEPT !.server.Flavor.ID = getFlavorID(d)]
                /\ pc' = "update:network"
                /\ UNCHANGED ret
    /\ UNCHANGED <<sgVars, d, wait, local>>

\* a change test that takes the flag of every interface as changed
sourceDestCheckChanged_Always(i) == i \in 1..Len(d.network)

\* d.HasChange("network.<i>.source_dest_check"): an interface the prior state lacks has
\* the zero value for its old flag
sourceDestCheckChanged(i) ==
    LET oldFlag == IF i <= Len(Old.network) THEN Old.network[i].source_dest_check ELSE FALSE
    IN  oldFlag # d.network[i].source_dest_check

enableSourceDestCheck == <<>>

\* lines 1413-1418: the networking client
UpdateNetwork ==
    /\ pc = "update:network"
    /\ IF ~HasChange("network")
       THEN pc' = "update:tags" /\ UNCHANGED <<ret, local>>
       ELSE \E client \in {"ok", "err"} :
           IF client = "err"
           THEN Return("error creating networking client") /\ UNCHANGED local
           ELSE /\ local' = [local EXCEPT !.i = 1]
                /\ pc' = "update:network:ports"
                /\ UNCHANGED ret
    /\ UNCHANGED <<sgVars, d, calls, wait, cloud>>

\* updateSourceDestCheck, lines 2126-2145: one turn of the loop over the interfaces
UpdatePort ==
    /\ pc = "update:network:ports"
    /\ local.i <= Len(d.network)
    /\ LET nic == d.network[local.i]
       IN  IF nic.port = "" \/ ~sourceDestCheckChanged(local.i)
           THEN /\ local' = [local EXCEPT !.i = @ + 1]
                /\ UNCHANGED <<pc, ret, calls, cloud>>
           ELSE \E res \in {"ok", "err"} :
                LET pairs == IF ~nic.source_dest_check
                             THEN disableSourceDestCheck ELSE enableSourceDestCheck
                IN  /\ calls' = Append(calls, Call("ports.Update",
                                                   [port |-> nic.port, pairs |-> pairs], res))
                    /\ IF res = "err"
                       THEN /\ Return("error updating source_dest_check on port of instance failed")
                            /\ UNCHANGED <<local, cloud>>
                       ELSE /\ cloud' = [cloud EXCEPT !.ports = PortUpdated(@, nic.port, pairs)]
                            /\ local' = [local EXCEPT !.i = @ + 1]
                            /\ UNCHANGED <<pc, ret>>
    /\ UNCHANGED <<sgVars, d, wait>>

\* line 2147 and 1420-1423: updateSourceDestCheck returns nil
UpdatePortsDone ==
    /\ pc = "update:network:ports"
    /\ local.i > Len(d.network)
    /\ pc' = "update:tags"
    /\ UNCHANGED <<sgVars, d, ret, calls, wait, local, cloud>>

\* lines 1425-1435; utils.UpdateResourceTags is one remote interaction here
UpdateTags ==
    /\ pc = "update:tags"
    /\ IF ~HasChange("tags")
       THEN pc' = "update:disk" /\ UNCHANGED <<ret, calls, cloud>>
       ELSE \E client \in {"ok", "err"}, res \in {"ok", "err"} :
           IF client = "err"
           THEN Return("error creating compute v1 client") /\ UNCHANGED <<calls, cloud>>
           ELSE /\ calls' = Append(calls, Call("utils.UpdateResourceTags",
                                               [old |-> Old.tags, new |-> d.tags], res))
                /\ IF res = "err"
                   THEN Return("error updating tags of instance") /\ UNCHANGED cloud
                   ELSE /\ pc' = "update:disk"
                        /\ UNCHANGED <<ret, cloud>>
    /\ UNCHANGED <<sgVars, d, wait, local>>

\* lines 1437-1464: the clients and the extend request
UpdateDisk ==
    /\ pc = "update:disk"
    /\ IF ~HasChange("system_disk_size")
       THEN pc' = "update:keypair" /\ UNCHANGED <<ret, calls, wait>>
       ELSE \E client \in {"ok", "err"}, res \in {"ok", "err"} :
           IF client = "err"
           THEN Return("error creating evs client") /\ UNCHANGED <<calls, wait>>
           ELSE /\ calls' = Append(calls, Call("cloudvolumes.ExtendSize",
                                               [id |-> d.system_disk_id, opts |-> extendOpts(d)],
                                               res))
                /\ IF res = "err"
                   THEN Return("error extending EVS volume size") /\ UNCHANGED wait
                   ELSE IF d.charging_mode = "prePaid"
                   THEN pc' = "update:disk:order" /\ UNCHANGED <<ret, wait>>
                   ELSE /\ wait' = [pending |-> {"extending"}, target |-> {"available", "in-use"},
                                    after |-> "update:keypair", polls |-> 0]
                        /\ pc' = "update:disk:wait"
                        /\ UNCHANGED ret
    /\ UNCHANGED <<sgVars, d, local, cloud>>

\* lines 1466-1476: prePaid waits for the order of the extension
UpdateDiskOrder ==
    /\ pc = "update:disk:order"
    /\ \E client \in {"ok", "err"}, res \in {"ok", "err"} :
        IF client = "err"
        THEN Return("error creating BSS v2 client") /\ UNCHANGED <<calls, wait>>
        ELSE /\ calls' = Append(calls, Call("common.WaitOrderComplete", "extend", res))
             /\ IF res = "err"
                THEN /\ Return("The order is not completed while extending system disk size")
                     /\ UNCHANGED wait
                ELSE /\ wait' = [pending |-> {"extending"}, target |-> {"available", "in-use"},
                                 after |-> "update:keypair", polls |-> 0]
                     /\ pc' = "update:disk:wait"
                     /\ UNCHANGED ret
    /\ UNCHANGED <<sgVars, d, local, cloud>>

\* the statuses and failures evs.CloudVolumeRefreshFunc can report
VolumeFetches == {"extending", "available", "in-use", "error_extending", "err"}

\* lines 1478-1491: one fetch of the wait for the volume
UpdateDiskPoll ==
    /\ pc = "update:disk:wait"
    /\ wait.polls < MaxPolls
    /\ \E fetch \in VolumeFetches :
        LET outcome == WaitOutcome(wait, [state |-> fetch, err |-> fetch = "err"])
        IN  /\ calls' = Append(calls, Call("evs.CloudVolumeRefreshFunc", d.system_disk_id, fetch))
            /\ IF outcome = "reached"
               THEN /\ pc' = wait.after
                    /\ wait' = NoWait
                    /\ cloud' = [cloud EXCEPT !.volumes =
                                    IF d.system_disk_id \in DOMAIN @
                                    THEN [@ EXCEPT ![d.system_disk_id].Size = d.system_disk_size]
                                    ELSE @]
                    /\ UNCHANGED ret
               ELSE IF outcome = "pending"
               THEN /\ wait' = [wait EXCEPT !.polls = @ + 1]
                    /\ UNCHANGED <<pc, ret, cloud>>
               ELSE /\ Return("error waiting for system disk to become ready")
                    /\ wait' = NoWait
                    /\ UNCHANGED cloud
    /\ UNCHANGED <<sgVars, d, local>>

\* the timeout elapses while the volume is still extending
UpdateDiskTimeout ==
    /\ pc = "update:disk:wait"
    /\ wait.polls = MaxPolls
    /\ Return("error waiting for system disk to become ready")
    /\ wait' = NoWait
    /\ UNCHANGED <<sgVars, d, calls, local, cloud>>

\* lines 1495-1513; common.UpdateEcsInstanceKeyPair is one remote interaction here
UpdateKeyPair ==
    /\ pc = "update:keypair"
    /\ IF ~HasChange("key_pair")
       THEN pc' = "update:power" /\ UNCHANGED <<ret, calls, cloud>>
       ELSE \E client \in {"ok", "err"}, res \in {"ok", "err"} :
           IF client = "err"
           THEN Return("error creating KMS v3 client") /\ UNCHANGED <<calls, cloud>>
           ELSE /\ calls' = Append(calls, Call("common.UpdateEcsInstanceKeyPair",
                                               [InUsedKeyPair |-> Old.key_pair,
                                                NewKeyPair |-> d.key_pair], res))
                /\ IF res = "err"
                   THEN Return("error updating the key pair") /\ UNCHANGED cloud
                   ELSE /\ cloud' = [cloud EXCEPT !.server.KeyName = d.key_pair]
                        /\ pc' = "update:power"
                        /\ UNCHANGED ret
    /\ UNCHANGED <<sgVars, d, wait, local>>

\* lines 1516-1521: the power action comes after every other change but auto_renew
UpdatePower ==
    /\ pc = "update:power"
    /\ IF ~HasChange("power_action")
       THEN pc' = "update:renew" /\ UNCHANGED local
       ELSE /\ local' = [local EXCEPT !.powerFor = "update", !.action = d.power_action]
            /\ pc' = "power:call"
    /\ UNCHANGED <<sgVars, d, ret, calls, wait, cloud>>

\* lines 1523-1533: auto_renew, then the refresh by Read
UpdateRenew ==
    /\ pc = "update:renew"
    /\ IF ~HasChange("auto_renew")
       THEN pc' = "read:get" /\ UNCHANGED <<ret, calls>>
       ELSE \E client \in {"ok", "err"}, res \in {"ok", "err"} :
           IF client = "err"
           THEN Return("error creating BSS V2 client") /\ UNCHANGED calls
           ELSE /\ calls' = Append(calls, Call("common.UpdateAutoRenew", d.auto_renew, res))
                /\ IF res = "err"
                   THEN Return("error updating the auto-renew of the instance")
                   ELSE pc' = "read:get" /\ UNCHANGED ret
    /\ UNCHANGED <<sgVars, d, wait, local, cloud>>

\* ----- the plans Update is run on

\* the concerns of Update, in the order of the code, with the attributes each one watches
Concerns ==
    <<"name", "metadata", "agency", "secgroups", "password", "flavor", "network", "tags",
      "disk", "keypair", "power", "renew">>

ConcernKeys ==
    [name      |-> {"name", "description"},
     metadata  |-> {"metadata"},
     agency    |-> {"agency_name", "agent_list"},
     secgroups |-> {"security_group_ids", "security_groups"},
     password  |-> {"admin_pass"},
     flavor    |-> {"flavor_id", "flavor_name"},
     network   |-> {"network"},
     tags      |-> {"tags"},
     disk      |-> {"system_disk_size"},
     keypair   |-> {"key_pair"},
     power     |-> {"power_action"},
     renew     |-> {"auto_renew"}]

\* the concerns with a changed attribute between the prior state and the plan
ChangedConcerns(oldD, newD) ==
    {c \in DOMAIN ConcernKeys : \E key \in ConcernKeys[c] : oldD[key] # newD[key]}

\* most concerns one plan changes
MaxChanged == 2

UpdateNic(port, sdc) ==
    [uuid |-> "n1", port |-> port, fixed_ip_v4 |-> "192.168.0.5", source_dest_check |-> sdc]

\* the state a Read left behind, under either billing
OldDs ==
    {[DefaultD EXCEPT !.id = "i-1",
                      !.name = "vm",
                      !.status = "ACTIVE",
                      !.charging_mode = mode,
                      !.flavor_id = "f1",
                      !.flavor_name = "s1.small",
                      !.metadata = [a |-> "1", b |-> "2"],
                      !.security_group_ids = {"sg1", "sg2"},
                      !.security_groups = {"default"},
                      !.admin_pass = "pw1",
                      !.network = <<UpdateNic("p1", TRUE), UpdateNic("p2", FALSE),
                                    UpdateNic("", TRUE)>>,
                      !.tags = [k |-> "v"],
                      !.system_disk_id = "v1",
                      !.system_disk_size = 40,
                      !.key_pair = "kp1"] : mode \in {"postPaid", "prePaid"}}

\* the values a plan can give each concern's attributes; the first one is the old value
Plans ==
    [name      |-> {[name |-> "vm", description |-> ""],
                    [name |-> "vm2", description |-> ""],
                    [name |-> "vm", description |-> "web"]},
     metadata  |-> {[metadata |-> [a |-> "1", b |-> "2"]],
                    [metadata |-> [b |-> "2", c |-> "3"]],
                    [metadata |-> [a |-> "1", b |-> "9"]]},
     agency    |-> {[agency_name |-> "", agent_list |-> ""],
                    [agency_name |-> "ag2", agent_list |-> ""],
                    [agency_name |-> "", agent_list |-> "ces"]},
     secgroups |-> {[security_group_ids |-> {"sg1", "sg2"}, security_groups |-> {"default"}],
                    [security_group_ids |-> {"sg2", "sg3"}, security_groups |-> {"default"}],
                    [security_group_ids |-> {}, security_groups |-> {"default"}],
                    [security_group_ids |-> {"sg1", "sg2"}, security_groups |-> {"web", "db"}],
                    [security_group_ids |-> {"sg1", "sg2", "sg3"}, security_groups |-> {"web"}]},
     password  |-> {[admin_pass |-> "pw1"], [admin_pass |-> "pw2"]},
     flavor    |-> {[flavor_id |-> "f1", flavor_name |-> "s1.small"],
                    [flavor_id |-> "f2", flavor_name |-> "s1.small"],
                    [flavor_id |-> "", flavor_name |-> "s1.large"]},
     network   |-> {[network |-> <<UpdateNic("p1", TRUE), UpdateNic("p2", FALSE),
                                   UpdateNic("", TRUE)>>],
                    [network |-> <<UpdateNic("p1", FALSE), UpdateNic("p2", FALSE),
                                   UpdateNic("", TRUE)>>],
                    [network |-> <<UpdateNic("p1", FALSE), UpdateNic("p2", TRUE),
                                   UpdateNic("", TRUE)>>],
                    [network |-> <<UpdateNic("p1", TRUE), UpdateNic("p2", FALSE),
                                   UpdateNic("", FALSE)>>]},
     tags      |-> {[tags |-> [k |-> "v"]], [tags |-> [k |-> "w"]]},
     disk      |-> {[system_disk_size |-> 40], [system_disk_size |-> 50]},
     keypair   |-> {[key_pair |-> "kp1"], [key_pair |-> "kp2"]},
     power     |-> {[power_action |-> ""], [power_action |-> "OFF"],
                    [power_action |-> "FORCE-REBOOT"]},
     renew     |-> {[auto_renew |-> ""], [auto_renew |-> "true"]}]

\* the attributes dd with the values of plan written over them
Planned(dd, plan) == [key \in DOMAIN dd |-> IF key \in DOMAIN plan THEN plan[key] ELSE dd[key]]

RECURSIVE PlansFrom(_, _, _)
\* every plan over the concerns from the i-th on that changes at most left of them,
\* applied to dd
PlansFrom(dd, i, left) ==
    IF i > Len(Concerns) THEN {dd}
    ELSE UNION {LET newD == Planned(dd, plan)
                IN  IF newD = dd THEN PlansFrom(dd, i + 1, left)
                    ELSE IF left = 0 THEN {}
                    ELSE PlansFrom(newD, i + 1, left - 1) : plan \in Plans[Concerns[i]]}

UpdateCloud ==
    [server |-> ServerOf("ACTIVE", "kp1", <<FixedAddress>>, <<[ID |-> "v1"]>>, <<>>,
                         [image |-> "img1", mode |-> "", tags |-> << <<"k", "=", "v">> >>]),
     ports |-> [p1 |-> [NetworkID |-> "n1", AllowedAddressPairs |-> <<>>],
                p2 |-> [NetworkID |-> "n1", AllowedAddressPairs |-> disableSourceDestCheck]],
     volumes |-> [v1 |-> [Size |-> 40, VolumeType |-> "SSD", Metadata |-> [SystemCmkID |-> ""]]],
     blockDevices |-> [v1 |-> [BootIndex |-> 0, PciAddress |-> "0000:02:01.0"]],
     images |-> [img1 |-> [Name |-> "ubuntu"]],
     groups |-> <<[Name |-> "default", ID |-> "sg1"]>>,
     userID |-> ""]

InitUpdate ==
    /\ SgIdle
    /\ \E oldD \in OldDs :
        /\ d \in PlansFrom(oldD, 1, MaxChanged)
        /\ local = [NoLocal EXCEPT !.old = <<oldD>>, !.d0 = <<d>>]
    /\ pc = "update:start"
    /\ ret = "none"
    /\ calls = <<>>
    /\ wait = NoWait
    /\ cloud = UpdateCloud

NextUpdate ==
    \/ UpdateStart
    \/ UpdateName
    \/ UpdateMetadata
    \/ UpdateMetadataDelete
    \/ UpdateMetadataSet
    \/ UpdateAgency
    \/ UpdateSecGroups
    \/ UpdateSecGroupRemove
    \/ UpdateSecGroupAdd
    \/ UpdatePassword
    \/ UpdateFlavor
    \/ UpdateFlavorJob
    \/ UpdateNetwork
    \/ UpdatePort
    \/ UpdatePortsDone
    \/ UpdateTags
    \/ UpdateDisk
    \/ UpdateDiskOrder
    \/ UpdateDiskPoll
    \/ UpdateDiskTimeout
    \/ UpdateKeyPair
    \/ UpdatePower
    \/ PowerCall
    \/ PowerJob
    \/ UpdateRenew
    \/ ReadGet
    \/ ReadImage
    \/ ReadNetworks
    \/ ReadVolume
    \/ ReadFinish

SpecUpdate == InitUpdate /\ [][NextUpdate]_vars

----------------------------------------------------------------------------
(* Update: properties *)

\* the concern a remote call of Update belongs to; "read" for the calls of the refresh
ConcernOf(c) ==
    IF c.call = "cloudservers.Update" THEN "name"
    ELSE IF c.call = "servers.DeleteMetadatum" THEN "metadata"
    ELSE IF c.call = "servers.UpdateMetadata"
    THEN IF DOMAIN c.arg \subseteq {"agency_name", "__support_agent_list"}
         THEN "agency" ELSE "metadata"
    ELSE IF c.call \in {"secgroups.RemoveServer", "secgroups.AddServer"} THEN "secgroups"
    ELSE IF c.call = "cloudservers.ChangeAdminPassword" THEN "password"
    ELSE IF c.call = "cloudservers.Resize" THEN "flavor"
    ELSE IF c.call = "cloudservers.WaitForJobSuccess"
    THEN IF c.arg = "resize" THEN "flavor" ELSE "power"
    ELSE IF c.call = "ports.Update" THEN "network"
    ELSE IF c.call = "utils.UpdateResourceTags" THEN "tags"
    ELSE IF c.call \in {"cloudvolumes.ExtendSize", "common.WaitOrderComplete",
                         "evs.CloudVolumeRefreshFunc"}
    THEN "disk"
    ELSE IF c.call = "common.UpdateEcsInstanceKeyPair" THEN "keypair"
    ELSE IF c.call = "powers.PowerAction" THEN "power"
    ELSE IF c.call = "common.UpdateAutoRenew" THEN "renew"
    ELSE "read"

\* the place of a concern in the sequence of Update; the refresh comes last
Rank(c) ==
    IF c = "read" THEN Len(Concerns) + 1
    ELSE CHOOSE i \in 1..Len(Concerns) : Concerns[i] = c

\* the remote shows the planned values of a concern (of those whose remote values the
\* model keeps)
RemoteShows(c) ==
    CASE c = "name"    -> /\ cloud.server.Name = d.name
                          /\ cloud.server.Description = d.description
      [] c = "flavor"  -> cloud.server.Flavor.ID = getFlavorID(d)
      [] c = "network" -> \A i \in 1..Len(d.network) :
                              d.network[i].port # "" =>
                                  cloud.ports[d.network[i].port].AllowedAddressPairs =
                                      IF d.network[i].source_dest_check
                                      THEN enableSourceDestCheck ELSE disableSourceDestCheck
      [] c = "disk"    -> cloud.volumes[d.system_disk_id].Size = d.system_disk_size
      [] c = "keypair" -> cloud.server.KeyName = d.key_pair
      [] OTHER         -> TRUE

\* the remote still shows what it held before Update for a concern
RemoteAsBefore(c) ==
    CASE c = "name"    -> /\ cloud.server.Name = UpdateCloud.server.Name
                          /\ cloud.server.Description = UpdateCloud.server.Description
      [] c = "flavor"  -> cloud.server.Flavor = UpdateCloud.server.Flavor
      [] c = "network" -> cloud.ports = UpdateCloud.ports
      [] c = "disk"    -> cloud.volumes = UpdateCloud.volumes
      [] c = "keypair" -> cloud.server.KeyName = UpdateCloud.server.KeyName
      [] OTHER         -> TRUE

Plan == local.d0[1]

\* C16: every remote call Update issues outside the refreshing Read belongs to a concern
\* with a changed attribute; a plan that changes nothing issues calls of Read only, none
\* of them mutating.
C16_CallsOnlyForChangedConcerns ==
    LET changed == ChangedConcerns(Old, Plan)
    IN  /\ \A i \in 1..Len(calls) :
               ConcernOf(calls[i]) # "read" => ConcernOf(calls[i]) \in changed
        /\ changed = {} =>
               /\ \A i \in 1..Len(calls) :
                      calls[i].call \in {"cloudservers.Get", "cloudimages.List",
                                         "flattenInstanceNetworks", "cloudvolumes.Get",
                                         "block_devices.Get"}
               /\ cloud = UpdateCloud

\* an Update of an unchanged plan has run its Read to the end
C16_Witness ==
    /\ pc = "done"
    /\ ret = "ok"
    /\ ChangedConcerns(Old, Plan) = {}
    /\ calls # <<>>
    /\ \A i \in 1..Len(calls) : ConcernOf(calls[i]) = "read"

\* the old and the new membership of the plan: the ids when they changed, else the names
PlannedGroups ==
    IF Old.security_group_ids # Plan.security_group_ids
    THEN [old |-> Old.security_group_ids, new |-> Plan.security_group_ids]
    ELSE [old |-> Old.security_groups, new |-> Plan.security_groups]

\* the groups a call of the given operation has been issued for
GroupsCalled(name) == {calls[i].arg : i \in CallsOf(name)}

\* C17: remove calls are issued only for groups of old minus new and add calls only for
\* groups of new minus old, each group at most once, so a group in both sets receives no
\* call; every remove call precedes every add call, and no add call is issued before every
\* group of old minus new has had its remove call; once the security-group sub-update is
\* over (Update goes on to the password, or has returned without error) the two sets of
\* groups called are exactly old minus new and new minus old.
C17_SecurityGroupDifference ==
    LET planned  == PlannedGroups
        removes  == CallsOf("secgroups.RemoveServer")
        adds     == CallsOf("secgroups.AddServer")
        removed  == {calls[i].arg : i \in removes}
        added    == {calls[i].arg : i \in adds}
        toRemove == planned.old \ planned.new
        toAdd    == planned.new \ planned.old
    IN  /\ removed \subseteq toRemove
        /\ added \subseteq toAdd
        /\ (removed \cup added) \cap (planned.old \cap planned.new) = {}
        /\ Cardinality(removes) = Cardinality(removed)
        /\ Cardinality(adds) = Cardinality(added)
        /\ \A i \in removes, j \in adds : i < j
        /\ added # {} => removed = toRemove
        /\ (pc = "update:password" \/ (pc = "done" /\ ret = "ok")) =>
               removed = toRemove /\ added = toAdd

\* one group removed, one kept, one added, and Update has returned without error
C17_Witness ==
    /\ pc = "done"
    /\ ret = "ok"
    /\ PlannedGroups = [old |-> {"sg1", "sg2"}, new |-> {"sg2", "sg3"}]
    /\ GroupsCalled("secgroups.RemoveServer") = {"sg1"}
    /\ GroupsCalled("secgroups.AddServer") = {"sg3"}

----------------------------------------------------------------------------
(* Termination of the handlers *)

\* the plan that changes every concern at once
FullPlan(oldD) ==
    [oldD EXCEPT !.name = "vm2",
                 !.metadata = [b |-> "2", c |-> "3"],
                 !.agency_name = "ag2",
                 !.security_group_ids = {"sg2", "sg3"},
                 !.admin_pass = "pw2",
                 !.flavor_id = "f2",
                 !.network = <<UpdateNic("p1", FALSE), UpdateNic("p2", TRUE),
                               UpdateNic("", TRUE)>>,
                 !.tags = [k |-> "w"],
                 !.system_disk_size = 50,
                 !.key_pair = "kp2",
                 !.power_action = "OFF",
                 !.auto_renew = "true"]

\* Update entered with a plan that changes at most one concern, or every concern
InitUpdateAll ==
    /\ SgIdle
    /\ \E oldD \in OldDs :
        /\ d \in PlansFrom(oldD, 1, 1) \cup {FullPlan(oldD)}
        /\ local = [NoLocal EXCEPT !.old = <<oldD>>, !.d0 = <<d>>]
    /\ pc = "update:start"
    /\ ret = "none"
    /\ calls = <<>>
    /\ wait = NoWait
    /\ cloud = UpdateCloud

\* Create with the power actions that make it take a different path: none, and a power-off
InitCreateWaits == InitCreate /\ d.power_action \in {"", "OFF"}

InitHandlers == InitCreateWaits \/ InitUpdateAll \/ InitDelete

NextHandlers == NextCreate \/ NextUpdate \/ NextDelete

\* a handler is a sequential function that keeps running, and every remote call and every
\* wait it makes is bounded by a timeout (lines 299-303, 2048, 2088, 1482), so the step it
\* stands at is taken at last
SpecTermination == InitHandlers /\ [][NextHandlers]_vars /\ WF_vars(NextHandlers)

\* C19: every wait on the status of the instance returns, whatever statuses the remote
\* reports and even when the status stays pending for ever, and Create, Update and Delete
\* return at last.
C19_EveryWaitReturns ==
    /\ (pc = "wait") ~> (pc # "wait")
    /\ <>(pc = "done")

\* a wait that saw nothing but pending statuses has returned by its timeout
C19_Witness ==
    /\ pc = "done"
    /\ local.waitErr = <<"timeout while waiting for state">>
    /\ Len(calls) >= MaxPolls
    /\ \A i \in (Len(calls) - MaxPolls + 1)..Len(calls) :
           calls[i].call = "cloudservers.Get" /\ calls[i].res \in {"ACTIVE", "SHUTOFF", "BUILD"}


\* the interfaces of the plan that have a port and whose source_dest_check differs from
\* the prior state's
DueNics ==
    {i \in 1..Len(Plan.network) :
        /\ Plan.network[i].port # ""
        /\ Plan.network[i].source_dest_check #
               (IF i <= Len(Old.network) THEN Old.network[i].source_dest_check ELSE FALSE)}

\* the k-th element of a finite set of integers, counted from the smallest
NthOf(S, k) == CHOOSE i \in S : Cardinality({j \in S : j < i}) = k - 1

\* C25: Update with a changed network block: the port updates are, in the order of the
\* interfaces, one for each interface with a port whose source_dest_check changed, with
\* the pair 1.1.1.1/0 when the new flag is false and no pair when it is true; no other
\* interface gets a port update; a failed port update is the last one and Update returns
\* an error; once the block is passed every due interface has had its update.
C25_PortUpdatesFollowChangedFlags ==
    LET updates == PortUpdatesAt
        due == DueNics
        n == Cardinality(updates)
    IN  /\ n <= Cardinality(due)
        /\ \A k \in 1..n :
              LET c == calls[NthOf(updates, k)]
                  nic == Plan.network[NthOf(due, k)]
              IN  /\ c.arg.port = nic.port
                  /\ c.arg.pairs = IF nic.source_dest_check
                                   THEN <<>> ELSE <<[IPAddress |-> "1.1.1.1/0"]>>
                  /\ c.res = "err" => k = n /\ pc = "done" /\ ret # "ok"
        /\ (pc = "update:tags" \/ (pc = "done" /\ ret = "ok")) => n = Cardinality(due)

C25_Witness ==
    /\ pc = "done" /\ ret = "ok"
    /\ DueNics = {1, 2}
    /\ Cardinality(PortUpdatesAt) = 2
    /\ calls[NthOf(PortUpdatesAt, 1)].arg = [port |-> "p1", pairs |-> <<[IPAddress |-> "1.1.1.1/0"]>>]
    /\ calls[NthOf(PortUpdatesAt, 2)].arg = [port |-> "p2", pairs |-> <<>>]

\* the ids of the groups the last read returned
ReturnedGroupIDs ==
    {dsAttrs.security_groups[1][k].id : k \in 1..Len(dsAttrs.security_groups[1])}

\* the ids of the remote's groups that match the four arguments of the query
MatchingGroupIDs ==
    {remoteGroups[i].ID : i \in {j \in 1..Len(remoteGroups) :
        /\ query.id = "" \/ remoteGroups[j].ID = query.id
        /\ query.name = "" \/ remoteGroups[j].Name = query.name
        /\ query.enterprise_project_id = ""
               \/ remoteGroups[j].EnterpriseProjectId = query.enterprise_project_id
        /\ query.description = <<>>
               \/ Contains(remoteGroups[j].Description, query.description)}}

\* C26: the data source returns the same groups whichever API generation serves the
\* query: a read served by the v1 fallback returns exactly the groups that match the id,
\* name, enterprise project and description keyword, as the v3 path does; in particular
\* with the id argument set every returned group has that id.
C26_FallbackAgreesWithV3 ==
    (dsRet = "ok" /\ dsEnv.v3List = "404") =>
        /\ ReturnedGroupIDs = MatchingGroupIDs
        /\ query.id # "" => ReturnedGroupIDs \subseteq {query.id}

\* the same statement about the reads the v3 path serves
V3ReturnsMatchingGroups ==
    (dsRet = "ok" /\ dsEnv.v3List = "ok") => ReturnedGroupIDs = MatchingGroupIDs

\* the v1 fallback with only the id argument set
C26_IdOnlyFallback ==
    (dsRet = "ok" /\ dsEnv.v3List = "404" /\ query.name = "" /\ query.description = <<>>)
        => (query.id # "" => ReturnedGroupIDs \subseteq {query.id})

\* a server-metadata update that carries the key with the value
MetadataSent(key, value) ==
    \E k \in CallsOf("servers.UpdateMetadata") :
        key \in DOMAIN calls[k].arg /\ calls[k].arg[key] = value

\* C27: once Update is past the agency block, a changed agent_list has been sent under
\* the key __support_agent_list, also when agency_name did not change, and a changed
\* agency_name has been sent under agency_name.
C27_AgentListIsSent ==
    pc = "update:secgroups" =>
        /\ Plan.agent_list # Old.agent_list => MetadataSent("__support_agent_list", Plan.agent_list)
        /\ Plan.agency_name # Old.agency_name => MetadataSent("agency_name", Plan.agency_name)

\* the part of the statement about agency_name alone
AgencyNameIsSent ==
    pc = "update:secgroups" =>
        (Plan.agency_name # Old.agency_name => MetadataSent("agency_name", Plan.agency_name))

(***************************************************************************)
(* The hcs_sfs_turbos data source and its acceptance test                  *)
(***************************************************************************)

\* the enterprise project the test is run with (HCS_ENTERPRISE_PROJECT_ID_TEST)
HCS_ENTERPRISE_PROJECT_ID_TEST == "eps-test"

\* var.turbo_configuration of the test
turbo_configuration ==
    << [size |-> 100, share_type |-> "sfsturbo.hdd", eps_enabled |-> FALSE],
       [size |-> 200, share_type |-> "sfsturbo.ssd", eps_enabled |-> FALSE],
       [size |-> 200, share_type |-> "sfsturbo.ssd", eps_enabled |-> TRUE] >>

\* resource "hcs_sfs_turbo" "test" [count.index], made from one configuration entry
TurboOf(index, cfg) ==
    [ id                    |-> "turbo-" \o ToString(index),
      name                  |-> "rName-" \o ToString(index),
      size                  |-> cfg.size,
      share_type            |-> cfg.share_type,
      enterprise_project_id |-> IF cfg.eps_enabled THEN HCS_ENTERPRISE_PROJECT_ID_TEST ELSE "0" ]

\* the three file systems the test creates (index 0, 1, 2)
TestTurbos == [i \in 1..Len(turbo_configuration) |-> TurboOf(i - 1, turbo_configuration[i])]

\* a query of the data source: an unset argument is "" (0 for the size)
NoTurboQuery == [name |-> "", size |-> 0, share_type |-> "", enterprise_project_id |-> ""]

\* the four data sources of the test
by_name == [NoTurboQuery EXCEPT !.name = TestTurbos[1].name]
by_size == [NoTurboQuery EXCEPT !.size = turbo_configuration[1].size]
by_share_type == [NoTurboQuery EXCEPT !.share_type = turbo_configuration[2].share_type]
by_eps_id == [NoTurboQuery EXCEPT !.enterprise_project_id = HCS_ENTERPRISE_PROJECT_ID_TEST]

\* a file system matches a query when it agrees with every argument that is set
TurboMatches(t, q) ==
    /\ q.name = "" \/ t.name = q.name
    /\ q.size = 0 \/ t.size = q.size
    /\ q.share_type = "" \/ t.share_type = q.share_type
    /\ q.enterprise_project_id = "" \/ t.enterprise_project_id = q.enterprise_project_id

\* data.hcs_sfs_turbos.X.turbos[*].id: every matching file system and no other
dataSourceTurbosRead(fileSystems, q) ==
    {fileSystems[i].id : i \in {j \in DOMAIN fileSystems : TurboMatches(fileSystems[j], q)}}

\* the remote's file systems: three of them, each made from some configuration entry
TurboConfigurations ==
    [size : {100, 200}, share_type : {"sfsturbo.hdd", "sfsturbo.ssd"}, eps_enabled : BOOLEAN]

TurboLists ==
    {[i \in 1..3 |-> TurboOf(i - 1, c[i])] : c \in [1..3 -> TurboConfigurations]}

\* the queries: one argument set, as in the test
TurboQueries ==
    {[NoTurboQuery EXCEPT !.name = "rName-" \o ToString(i)] : i \in 0..2}
    \cup {[NoTurboQuery EXCEPT !.size = n] : n \in {100, 200}}
    \cup {[NoTurboQuery EXCEPT !.share_type = ty] : ty \in {"sfsturbo.hdd", "sfsturbo.ssd"}}
    \cup {[NoTurboQuery EXCEPT !.enterprise_project_id = e] : e \in {"0", HCS_ENTERPRISE_PROJECT_ID_TEST}}

InitTurbos ==
    /\ turbo \in [fileSystems : TurboLists, query : TurboQueries, ids : {{}}, read : {FALSE}]
    /\ remoteGroups = <<>>
    /\ query = [id |-> "", name |-> "", enterprise_project_id |-> "", description |-> <<>>]
    /\ fltOut = [fn |-> "none"]
    /\ dsId = None
    /\ dsAttrs = DsUntouched.attrs
    /\ dsRet = "none"
    /\ dsEnv = NoDsEnv
    /\ dsCalls = <<>>
    /\ InstIdle

\* terraform reads the data source
TurbosRead ==
    /\ ~turbo.read
    /\ turbo' = [turbo EXCEPT !.ids = dataSourceTurbosRead(turbo.fileSystems, turbo.query),
                              !.read = TRUE]
    /\ UNCHANGED <<remoteGroups, query, fltOut, dsId, dsAttrs, dsRet, dsEnv, dsCalls, instVars>>

NextTurbos == TurbosRead

SpecTurbos == InitTurbos /\ [][NextTurbos]_vars

\* the four outputs of the test, each evaluated on the data source with its query
name_query_result_validation ==
    turbo.query = by_name =>
        /\ TestTurbos[1].id \in turbo.ids
        /\ TestTurbos[2].id \notin turbo.ids
        /\ TestTurbos[3].id \notin turbo.ids

size_query_result_validation ==
    turbo.query = by_size =>
        /\ TestTurbos[1].id \in turbo.ids
        /\ TestTurbos[2].id \notin turbo.ids
        /\ TestTurbos[3].id \notin turbo.ids

share_type_query_result_validation ==
    turbo.query = by_share_type =>
        /\ TestTurbos[2].id \in turbo.ids
        /\ TestTurbos[1].id \notin turbo.ids
        /\ TestTurbos[3].id \notin turbo.ids

eps_id_query_result_validation ==
    turbo.query = by_eps_id => TestTurbos[3].id \in turbo.ids

C22_PowerActionLast ==
    \A i, j \in 1..Len(calls) :
        (i < j /\ calls[i].call = "powers.PowerAction")
            => ConcernOf(calls[j]) \in {"power", "read"}


\* the image lookups of Create: those before the server is first fetched
CreateImageLookups ==
    {k \in CallsOf("cloudimages.List") : \A j \in CallsOf("cloudservers.Get") : k < j}

\* Create has settled the image and the flavor
ImageResolved == local.flavorId # ""

\* the ids of the images the remote may list first under a name
ImagesNamed(name) ==
    {listed[1].ID : listed \in {l \in ImageListings : l # <<>> /\ l[1].Name = name}}

\* C24: image resolution in Create: with block devices none of which maps an image to
\* local, the image id is empty and no lookup is issued; otherwise a non-empty image_id
\* is used as is without any lookup, even when image_name is set too; otherwise a
\* non-empty image_name is resolved by one lookup for that name, and the id used is the id
\* of a listed image of exactly that name; with neither, Create fails before any call.
C24_ImageResolution ==
    LET bdm == Config.block_device_mapping_v2
        noImage == bdm # <<>> /\ ~\E i \in 1..Len(bdm) :
                       bdm[i].source_type = "image" /\ bdm[i].destination_type = "local"
    IN  IF noImage
        THEN CreateImageLookups = {} /\ (ImageResolved => local.imageId = "")
        ELSE IF Config.image_id # ""
        THEN CreateImageLookups = {} /\ (ImageResolved => local.imageId = Config.image_id)
        ELSE IF Config.image_name # ""
        THEN /\ Cardinality(CreateImageLookups) <= 1
             /\ \A k \in CreateImageLookups : calls[k].arg = Config.image_name
             /\ ImageResolved =>
                   /\ \E k \in CreateImageLookups : calls[k].res = "ok"
                   /\ local.imageId \in ImagesNamed(Config.image_name)
                   /\ local.imageId # ""
        ELSE /\ ~ImageResolved
             /\ calls = <<>>
             /\ pc \in {"create:start", "create:image", "done"}
             /\ pc = "done" => ret \notin {"ok", "none"}

C24_Witness ==
    /\ pc = "done" /\ ret = "ok"
    /\ Config.block_device_mapping_v2 = <<>>
    /\ Config.image_id = "img1" /\ Config.image_name = "ubuntu-2"
    /\ local.imageId = "img1"
    /\ CreateImageLookups = {}

====
